---------------------------- MODULE Spec2Model ----------------------------
(***************************************************************************)
(* A model of the core of vscode-sandwich: the position/range utilities,   *)
(* the range selector, the pair finder and the edit generator.             *)
(*                                                                         *)
(* A document is a sequence of one-character strings.  Offsets are         *)
(* 0-based, as in the TypeScript source: the character at offset i of a    *)
(* text t is t[i + 1].  A nullable result is the empty sequence (null) or  *)
(* a one-element sequence holding the value.                               *)
(***************************************************************************)
EXTENDS Integers, Sequences, FiniteSets, TLC

VARIABLES
    documentText,     \* EditorState.documentText
    cursorPosition,   \* EditorState.cursorPosition
    selection,        \* EditorState.selection
    op,               \* the core entry point called last ("idle": none yet)
    arg,              \* the PairType or RangeType argument of that call
    result,           \* what the call returned
    original,         \* the document the session started from
    quickPick,        \* the picker on screen and the promise it settles
    command,          \* the activation of executeSandwichCommand
    window            \* vscode.window: the active editor, the decorations shown

vars ==
    <<documentText, cursorPosition, selection, op, arg, result, original, quickPick,
      command, window>>

(***************************************************************************)
(* Bounds of the model.                                                    *)
(***************************************************************************)
MaxQuoteLen == 5      \* longest document drawn from the quote pieces
MaxBracketLen == 5    \* longest document drawn from the bracket pieces
MaxTagLen == 16       \* longest document assembled from the tag pieces
MaxEditLen == 3       \* longest document that is selected in or added to
MaxSelfClosingLen == 9 \* longest document assembled from the self-closing pieces
MaxIndentLen == 4      \* longest document assembled from the indentation pieces
MaxCallDocLen == 9     \* longest document the detectors are called on with any pair
MaxPickDocLen == 1     \* longest document a picker is opened on
MaxTyped == 2          \* most keys typed into one picker
MaxOffsetDocLen == 4   \* longest document whose offsets are converted
MaxPastEnd == 2        \* how far past the document, and around the ceiling, offsets go
MaxCommandDocLen == 3  \* longest document the command is run on (CommandDocs aside)
MaxTextDocLen == 5     \* longest document whose ranges are read
MaxEditsDocLen == 11  \* longest document whose detected ranges are turned into edits

(***************************************************************************)
(* Generic helpers.                                                        *)
(***************************************************************************)
Null == <<>>
Some(v) == <<v>>

Min(a, b) == IF a < b THEN a ELSE b
Max(a, b) == IF a > b THEN a ELSE b

\* The elements of a finite set of integers, ascending.
SortedSeq(S) ==
    [k \in 1..Cardinality(S) |->
        CHOOSE i \in S : Cardinality({j \in S : j < i}) = k - 1]

(***************************************************************************)
(* JavaScript string primitives on sequences of characters.                *)
(***************************************************************************)
\* String.prototype.substring(a, b): both ends clamped to the text, swapped
\* when a > b.
Substring(t, a, b) ==
    LET a1 == Max(0, Min(a, Len(t)))
        b1 == Max(0, Min(b, Len(t)))
    IN  SubSeq(t, Min(a1, b1) + 1, Max(a1, b1))

\* String.prototype.substring(a): to the end of the text.
SubstringFrom(t, a) == Substring(t, a, Len(t))

\* Does pat occur in t at offset i?
OccursAt(t, pat, i) ==
    /\ i >= 0
    /\ i + Len(pat) <= Len(t)
    /\ \A k \in 1..Len(pat) : t[i + k] = pat[k]

\* String.prototype.indexOf(pat, from)
IndexOf(t, pat, from) ==
    LET hits == {i \in Max(0, from)..(Len(t) - Len(pat)) : OccursAt(t, pat, i)}
    IN  IF hits = {} THEN -1 ELSE CHOOSE i \in hits : \A j \in hits : i <= j

\* String.prototype.lastIndexOf(pat)
LastIndexOf(t, pat) ==
    LET hits == {i \in 0..(Len(t) - Len(pat)) : OccursAt(t, pat, i)}
    IN  IF hits = {} THEN -1 ELSE CHOOSE i \in hits : \A j \in hits : i >= j

\* String.prototype.split("\n")
RECURSIVE SplitLines(_)
SplitLines(t) ==
    LET nl == IndexOf(t, <<"\n">>, 0)
    IN  IF nl = -1 THEN <<t>>
        ELSE <<Substring(t, 0, nl)>> \o SplitLines(SubstringFrom(t, nl + 1))

\* Array.prototype.join("\n")
RECURSIVE JoinLines(_)
JoinLines(ls) ==
    IF ls = <<>> THEN <<>>
    ELSE IF Len(ls) = 1 THEN ls[1]
    ELSE ls[1] \o <<"\n">> \o JoinLines(Tail(ls))

(***************************************************************************)
(* EditorState                                                             *)
(***************************************************************************)
Position(l, c) == [line |-> l, character |-> c]
Range(s, e) == [start |-> s, end |-> e]

\* An editor state: the host's snapshot handed to the core.
EditorState(text, cursor, sel) ==
    [documentText |-> text, cursorPosition |-> cursor, selection |-> sel,
     lines |-> SplitLines(text)]

\* EditorState.getLineText: the text of a line, "" outside the document.
getLineText(state, n) ==
    IF n >= 0 /\ n < Len(state.lines) THEN state.lines[n + 1] ELSE <<>>

\* Document order on positions.
PosLeq(p, q) == p.line < q.line \/ (p.line = q.line /\ p.character <= q.character)
PosLt(p, q) == p.line < q.line \/ (p.line = q.line /\ p.character < q.character)

\* The valid positions of a buffer: a line of the document, a column up to
\* (and including) the length of that line.
ValidPositions(state) ==
    UNION {{Position(l, c) : c \in 0..Len(state.lines[l + 1])} :
           l \in 0..(Len(state.lines) - 1)}

(***************************************************************************)
(* Position/Range utilities                                                *)
(***************************************************************************)
RECURSIVE positionToOffsetLoop(_, _, _, _)
positionToOffsetLoop(state, position, i, offset) ==
    IF i < position.line
    THEN positionToOffsetLoop(state, position, i + 1,
                              offset + Len(getLineText(state, i)) + 1)
    ELSE offset + position.character

positionToOffset(state, position) == positionToOffsetLoop(state, position, 0, 0)

MAX_LINES == 100000

RECURSIVE offsetToPositionLoop(_, _, _, _)
\* (Past the last line of the document getLineText is "" and every turn of
\* the loop adds one to currentOffset and to line: those turns are taken at
\* once, up to the line that holds the offset or to the ceiling.)
offsetToPositionLoop(state, offset, currentOffset, line) ==
    IF line < MAX_LINES
    THEN IF line >= Len(state.lines)
         THEN IF line + (offset - currentOffset) < MAX_LINES
              THEN Position(line + (offset - currentOffset), 0)
              ELSE Position(0, 0)
         ELSE
         LET lineLength == Len(getLineText(state, line)) + 1
         IN  IF currentOffset + lineLength > offset
             THEN Position(line, offset - currentOffset)
             ELSE offsetToPositionLoop(state, offset, currentOffset + lineLength,
                                       line + 1)
    ELSE Position(0, 0)

\* The value of line when the loop of offsetToPosition ends: MAX_LINES when it
\* ends without a return.
RECURSIVE offsetToPositionLastLine(_, _, _, _)
offsetToPositionLastLine(state, offset, currentOffset, line) ==
    IF line < MAX_LINES
    THEN IF line >= Len(state.lines)
         THEN IF line + (offset - currentOffset) < MAX_LINES
              THEN line + (offset - currentOffset)
              ELSE MAX_LINES
         ELSE
         LET lineLength == Len(getLineText(state, line)) + 1
         IN  IF currentOffset + lineLength > offset
             THEN line
             ELSE offsetToPositionLastLine(state, offset, currentOffset + lineLength,
                                           line + 1)
    ELSE MAX_LINES

\* A faulty variant of offsetToPosition: the line test admits the offset one past
\* the end of the line (>= for >).
RECURSIVE offsetToPositionLoopGe(_, _, _, _)
offsetToPositionLoopGe(state, offset, currentOffset, line) ==
    IF line < MAX_LINES
    THEN IF line >= Len(state.lines)
         THEN IF line + Max(0, offset - currentOffset - 1) < MAX_LINES
              THEN Position(line + Max(0, offset - currentOffset - 1),
                            offset - currentOffset - Max(0, offset - currentOffset - 1))
              ELSE Position(0, 0)
         ELSE
         LET lineLength == Len(getLineText(state, line)) + 1
         IN  IF currentOffset + lineLength >= offset
             THEN Position(line, offset - currentOffset)
             ELSE offsetToPositionLoopGe(state, offset, currentOffset + lineLength,
                                         line + 1)
    ELSE Position(0, 0)

offsetToPositionGe(state, offset) == offsetToPositionLoopGe(state, offset, 0, 0)

offsetToPosition(state, offset) == offsetToPositionLoop(state, offset, 0, 0)

\* offsetToPosition as its caller sees it: the position returned, the error
\* thrown (none: the function has no throw), what console.error was given,
\* and the number of turns of the loop.
callOffsetToPosition(state, offset) ==
    LET lastLine == offsetToPositionLastLine(state, offset, 0, 0)
    IN  [thrown |-> <<>>,
         value |-> offsetToPosition(state, offset),
         logged |-> IF lastLine = MAX_LINES
                    THEN <<"Maximum line count exceeded in offsetToPosition">>
                    ELSE <<>>,
         iterations |-> IF lastLine = MAX_LINES THEN MAX_LINES ELSE lastLine + 1]

(***************************************************************************)
(* Range Selector: text of a range                                         *)
(***************************************************************************)
\* A faulty variant of middleLines: the lines between the first and the last
\* are left out.
middleLinesNone(state, i, endLine) == <<>>

RECURSIVE middleLines(_, _, _)
middleLines(state, i, endLine) ==
    IF i < endLine
    THEN <<getLineText(state, i)>> \o middleLines(state, i + 1, endLine)
    ELSE <<>>

getTextFromRange(state, range) ==
    IF range.start.line = range.end.line
    THEN Substring(getLineText(state, range.start.line),
                   range.start.character, range.end.character)
    ELSE JoinLines(
            <<SubstringFrom(getLineText(state, range.start.line),
                            range.start.character)>>
            \o middleLines(state, range.start.line + 1, range.end.line)
            \o <<Substring(getLineText(state, range.end.line), 0,
                           range.end.character)>>)

(***************************************************************************)
(* Pair Catalog                                                            *)
(***************************************************************************)
\* A PairType: a basic pair (the TypeScript string) or a tag pair.
BasicPair(ch) == [type |-> "basic", name |-> <<ch>>]
TagPair(n) == [type |-> "tag", name |-> n]

BRACKETS_DELIMITERS == <<"(", "{", "[", "<">>
\* (the backtick is written "BQ": SANY's lexer cannot read it inside a string)
QUOTES_DELIMITERS == <<"'", "\"", "BQ">>

isBrackets(ch) == \E k \in 1..Len(BRACKETS_DELIMITERS) : BRACKETS_DELIMITERS[k] = ch

PAIR_DELIMITERS(ch) ==
    CASE ch = "(" -> [opening |-> <<"(">>, closing |-> <<")">>]
      [] ch = "{" -> [opening |-> <<"{">>, closing |-> <<"}">>]
      [] ch = "[" -> [opening |-> <<"[">>, closing |-> <<"]">>]
      [] ch = "<" -> [opening |-> <<"<">>, closing |-> <<">">>]
      [] OTHER -> [opening |-> <<ch>>, closing |-> <<ch>>]

getPairDelimiter(pair) ==
    IF pair.type = "basic"
    THEN PAIR_DELIMITERS(pair.name[1])
    ELSE [opening |-> <<"<">> \o pair.name \o <<">">>,
          closing |-> <<"<", "/">> \o pair.name \o <<">">>]

(***************************************************************************)
(* Pair Finder: quotes and brackets                                        *)
(***************************************************************************)
PairPosition(os, oe, cs, ce) ==
    [openingStart |-> os, openingEnd |-> oe, closingStart |-> cs, closingEnd |-> ce]

\* A faulty variant of createSelectionResult: the range starts where the opening
\* delimiter starts.
createSelectionResultOuter(state, pairPosition) ==
    LET openingStartPosition == offsetToPosition(state, pairPosition.openingStart)
        openingEndPosition == offsetToPosition(state, pairPosition.openingEnd)
        closingStartPosition == offsetToPosition(state, pairPosition.closingStart)
        closingEndPosition == offsetToPosition(state, pairPosition.closingEnd)
        range == Range(openingStartPosition, closingStartPosition)
    IN  [range |-> range,
         startRange |-> Range(openingStartPosition, openingEndPosition),
         endRange |-> Range(closingStartPosition, closingEndPosition),
         text |-> getTextFromRange(state, range)]

createSelectionResult(state, pairPosition) ==
    LET openingStartPosition == offsetToPosition(state, pairPosition.openingStart)
        openingEndPosition == offsetToPosition(state, pairPosition.openingEnd)
        closingStartPosition == offsetToPosition(state, pairPosition.closingStart)
        closingEndPosition == offsetToPosition(state, pairPosition.closingEnd)
        range == Range(openingEndPosition, closingStartPosition)
    IN  [range |-> range,
         startRange |-> Range(openingStartPosition, openingEndPosition),
         endRange |-> Range(closingStartPosition, closingEndPosition),
         text |-> getTextFromRange(state, range)]

\* All offsets at which searchString occurs in text, ascending.
findAllOccurrences(text, searchString) ==
    SortedSeq({i \in 0..(Len(text) - 1) : OccursAt(text, searchString, i)})

\* The stack matcher: push an opening, pop and pair on a closing when the
\* stack is not empty.  all is the merged, sorted list of occurrences.
RECURSIVE balancedLoop(_, _, _, _)
balancedLoop(all, k, stack, pairs) ==
    IF k > Len(all) THEN pairs
    ELSE IF all[k].type = "opening"
         THEN balancedLoop(all, k + 1, Append(stack, all[k].index), pairs)
         ELSE IF Len(stack) > 0
              THEN balancedLoop(all, k + 1, SubSeq(stack, 1, Len(stack) - 1),
                                Append(pairs, [start |-> stack[Len(stack)],
                                               end |-> all[k].index]))
              ELSE balancedLoop(all, k + 1, stack, pairs)

findBalancedPairs(text, opening, closing) ==
    LET openingIndices == findAllOccurrences(text, opening)
        closingIndices == findAllOccurrences(text, closing)
    IN  IF opening = closing
        THEN [k \in 1..(Len(openingIndices) \div 2) |->
                [start |-> openingIndices[2 * k - 1], end |-> openingIndices[2 * k]]]
        ELSE LET isOpening(i) == \E k \in 1..Len(openingIndices) : openingIndices[k] = i
                 both == {openingIndices[k] : k \in 1..Len(openingIndices)} \cup
                         {closingIndices[k] : k \in 1..Len(closingIndices)}
                 sorted == SortedSeq(both)
                 allIndices == [k \in 1..Len(sorted) |->
                                  [index |-> sorted[k],
                                   type |-> IF isOpening(sorted[k]) THEN "opening"
                                            ELSE "closing"]]
             IN  balancedLoop(allIndices, 1, <<>>, <<>>)

MAX_SAFE_INTEGER == 2147483647

\* A faulty variant of quoteLoop: the fallback keeps the first pair that ends before
\* the cursor instead of the nearest one.
RECURSIVE quoteLoopFirst(_, _, _, _, _, _)
quoteLoopFirst(balancedPairs, k, cursorOffset, closingLength, best, minDistance) ==
    IF k > Len(balancedPairs) THEN best
    ELSE LET pair == balancedPairs[k]
         IN  IF pair.start < cursorOffset /\ cursorOffset <= pair.end
             THEN Some(pair)
             ELSE IF cursorOffset = pair.end + closingLength
             THEN Some(pair)
             ELSE IF pair.end <= cursorOffset /\ best = Null
             THEN quoteLoopFirst(balancedPairs, k + 1, cursorOffset, closingLength,
                                 Some(pair), cursorOffset - pair.end)
             ELSE quoteLoopFirst(balancedPairs, k + 1, cursorOffset, closingLength,
                                 best, minDistance)

\* The loop over the candidate quote pairs; best is the pair kept so far.
RECURSIVE quoteLoop(_, _, _, _, _, _)
quoteLoop(balancedPairs, k, cursorOffset, closingLength, best, minDistance) ==
    IF k > Len(balancedPairs) THEN best
    ELSE LET pair == balancedPairs[k]
         IN  IF pair.start < cursorOffset /\ cursorOffset <= pair.end
             THEN Some(pair)
             ELSE IF cursorOffset = pair.end + closingLength
             THEN Some(pair)
             ELSE IF pair.end <= cursorOffset /\ cursorOffset - pair.end < minDistance
             THEN quoteLoop(balancedPairs, k + 1, cursorOffset, closingLength,
                            Some(pair), cursorOffset - pair.end)
             ELSE quoteLoop(balancedPairs, k + 1, cursorOffset, closingLength,
                            best, minDistance)

findSurroundingQuotePair(state, cursorOffset, balancedPairs, opening, closing) ==
    LET bestPair == quoteLoop(balancedPairs, 1, cursorOffset, Len(closing),
                              Null, MAX_SAFE_INTEGER)
    IN  IF bestPair = Null THEN Null
        ELSE Some(createSelectionResult(state,
                PairPosition(bestPair[1].start, bestPair[1].start + Len(opening),
                             bestPair[1].end, bestPair[1].end + Len(closing))))

\* The first closing occurrence after openingStart that lies after the cursor.
RECURSIVE closingLoop(_, _, _, _)
closingLoop(closingIndices, j, openingStart, cursorOffset) ==
    IF j > Len(closingIndices) THEN -1
    ELSE IF closingIndices[j] <= openingStart
         THEN closingLoop(closingIndices, j + 1, openingStart, cursorOffset)
         ELSE IF cursorOffset > openingStart /\ cursorOffset < closingIndices[j]
              THEN closingIndices[j]
              ELSE closingLoop(closingIndices, j + 1, openingStart, cursorOffset)

RECURSIVE openingLoop(_, _, _, _, _, _)
openingLoop(openingIndices, k, closingIndices, cursorOffset, openingLength, closingLength) ==
    IF k > Len(openingIndices) THEN Null
    ELSE IF openingIndices[k] >= cursorOffset
         THEN openingLoop(openingIndices, k + 1, closingIndices, cursorOffset,
                          openingLength, closingLength)
         ELSE LET closingStart == closingLoop(closingIndices, 1, openingIndices[k],
                                              cursorOffset)
              IN  IF closingStart # -1
                  THEN Some(PairPosition(openingIndices[k],
                                         openingIndices[k] + openingLength,
                                         closingStart, closingStart + closingLength))
                  ELSE openingLoop(openingIndices, k + 1, closingIndices, cursorOffset,
                                   openingLength, closingLength)

findSurroundingPairPosition(cursorOffset, openingIndices, closingIndices, openingLength, closingLength) ==
    openingLoop(openingIndices, 1, closingIndices, cursorOffset,
                openingLength, closingLength)

\* A faulty variant of smallestPair: the comparison is reversed, so the widest pair
\* is kept.
RECURSIVE largestPair(_, _, _)
largestPair(pairs, k, smallest) ==
    IF k > Len(pairs) THEN smallest
    ELSE largestPair(pairs, k + 1,
            IF pairs[k].end - pairs[k].start > smallest.end - smallest.start
            THEN pairs[k] ELSE smallest)

\* Array.prototype.reduce keeping the pair with the strictly smaller span.
RECURSIVE smallestPair(_, _, _)
smallestPair(pairs, k, smallest) ==
    IF k > Len(pairs) THEN smallest
    ELSE smallestPair(pairs, k + 1,
            IF pairs[k].end - pairs[k].start < smallest.end - smallest.start
            THEN pairs[k] ELSE smallest)

findSurroundingBracketPair(state, cursorOffset, balancedPairs, opening, closing) ==
    LET surroundingPairs ==
            SelectSeq(balancedPairs,
                      LAMBDA pair : pair.start < cursorOffset /\ cursorOffset < pair.end)
    IN  IF Len(surroundingPairs) > 0
        THEN LET surroundingPair == smallestPair(surroundingPairs, 1, surroundingPairs[1])
             IN  Some(createSelectionResult(state,
                    PairPosition(surroundingPair.start, surroundingPair.start + Len(opening),
                                 surroundingPair.end, surroundingPair.end + Len(closing))))
        ELSE LET pairPosition ==
                    findSurroundingPairPosition(cursorOffset,
                        findAllOccurrences(state.documentText, opening),
                        findAllOccurrences(state.documentText, closing),
                        Len(opening), Len(closing))
             IN  IF pairPosition = Null THEN Null
                 ELSE Some(createSelectionResult(state, pairPosition[1]))

findSurroundingBasicPair(state, documentText_, cursorOffset, delimiter) ==
    LET balancedPairs == findBalancedPairs(documentText_, delimiter.opening,
                                           delimiter.closing)
    IN  IF delimiter.opening = delimiter.closing
        THEN findSurroundingQuotePair(state, cursorOffset, balancedPairs,
                                      delimiter.opening, delimiter.closing)
        ELSE findSurroundingBracketPair(state, cursorOffset, balancedPairs,
                                        delimiter.opening, delimiter.closing)

(***************************************************************************)
(* The regular expressions of the tag code, as matchers on sequences.      *)
(* A match is a record [index, end, name]: the text matched is the         *)
(* half-open span index..end.                                              *)
(***************************************************************************)
Letters ==
    {"a", "b", "c", "d", "e", "f", "g", "h", "i", "j", "k", "l", "m",
     "n", "o", "p", "q", "r", "s", "t", "u", "v", "w", "x", "y", "z",
     "A", "B", "C", "D", "E", "F", "G", "H", "I", "J", "K", "L", "M",
     "N", "O", "P", "Q", "R", "S", "T", "U", "V", "W", "X", "Y", "Z"}
Digits == {"0", "1", "2", "3", "4", "5", "6", "7", "8", "9"}
Whitespace == {" ", "\n", "\t", "\r"}

Match(i, e, n) == [index |-> i, end |-> e, name |-> n]

\* The end of the longest run of characters of set S starting at offset i.
RunEnd(t, i, S) ==
    LET stops == {j \in i..(Len(t) - 1) : t[j + 1] \notin S}
    IN  IF stops = {} THEN Max(i, Len(t)) ELSE CHOOSE j \in stops : \A k \in stops : j <= k

\* /<([A-Za-z][\dA-Za-z]*)[^>]*>/ anchored at offset i
openingTagAt(t, i) ==
    IF i + 1 < Len(t) /\ t[i + 1] = "<" /\ t[i + 2] \in Letters
    THEN LET nameEnd == RunEnd(t, i + 1, Letters \cup Digits)
             gt == IndexOf(t, <<">">>, nameEnd)
         IN  IF gt = -1 THEN Null
             ELSE Some(Match(i, gt + 1, Substring(t, i + 1, nameEnd)))
    ELSE Null

\* new RegExp(`<${tagName}[^>]*>`) anchored at offset i
namedOpeningTagAt(t, tagName, i) ==
    IF OccursAt(t, <<"<">> \o tagName, i)
    THEN LET gt == IndexOf(t, <<">">>, i + 1 + Len(tagName))
         IN  IF gt = -1 THEN Null ELSE Some(Match(i, gt + 1, tagName))
    ELSE Null

\* /<\/([A-Za-z][\dA-Za-z]*)\s*>/ anchored at offset i
closingTagAt(t, i) ==
    IF i + 2 < Len(t) /\ t[i + 1] = "<" /\ t[i + 2] = "/" /\ t[i + 3] \in Letters
    THEN LET nameEnd == RunEnd(t, i + 2, Letters \cup Digits)
             wsEnd == RunEnd(t, nameEnd, Whitespace)
         IN  IF wsEnd < Len(t) /\ t[wsEnd + 1] = ">"
             THEN Some(Match(i, wsEnd + 1, Substring(t, i + 2, nameEnd)))
             ELSE Null
    ELSE Null

\* new RegExp(`</${tagName}\\s*>`) anchored at offset i
namedClosingTagAt(t, tagName, i) ==
    IF OccursAt(t, <<"<", "/">> \o tagName, i)
    THEN LET wsEnd == RunEnd(t, i + 2 + Len(tagName), Whitespace)
         IN  IF wsEnd < Len(t) /\ t[wsEnd + 1] = ">"
             THEN Some(Match(i, wsEnd + 1, tagName))
             ELSE Null
    ELSE Null

\* /<([A-Za-z][\dA-Za-z]*)[^>]*\/>/ anchored at offset i
selfClosingTagAt(t, i) ==
    IF i + 1 < Len(t) /\ t[i + 1] = "<" /\ t[i + 2] \in Letters
    THEN LET gt == IndexOf(t, <<">">>, i + 2)
         IN  IF gt # -1 /\ t[gt] = "/"
             THEN Some(Match(i, gt + 1, Substring(t, i + 1, RunEnd(t, i + 1, Letters \cup Digits))))
             ELSE Null
    ELSE Null

\* RegExp.prototype.exec of a global expression with lastIndex = from, given
\* the set of its anchored matches: the leftmost match starting at or after
\* from, or null.
execFrom(anchored, from) ==
    LET cands == {m \in anchored : m.index >= from}
    IN  IF cands = {} THEN Null
        ELSE Some(CHOOSE m \in cands : \A n \in cands : m.index <= n.index)

\* The successive results of exec in a while loop: each search resumes at
\* the end of the previous match.
RECURSIVE execAll(_, _)
execAll(anchored, from) ==
    LET m == execFrom(anchored, from)
    IN  IF m = Null THEN <<>> ELSE m \o execAll(anchored, m[1].end)

Anchored(t, matchAt(_, _)) ==
    {matchAt(t, i)[1] : i \in {j \in 0..(Len(t) - 1) : matchAt(t, j) # Null}}

openingTagMatches(t) == Anchored(t, openingTagAt)
closingTagMatches(t) == Anchored(t, closingTagAt)
selfClosingTagMatches(t) == Anchored(t, selfClosingTagAt)
namedOpeningTagMatches(t, tagName) ==
    Anchored(t, LAMBDA u, i : namedOpeningTagAt(u, tagName, i))
namedClosingTagMatches(t, tagName) ==
    Anchored(t, LAMBDA u, i : namedClosingTagAt(u, tagName, i))

(***************************************************************************)
(* Pair Finder: tags                                                       *)
(***************************************************************************)
findSurroundingTagPair(state, documentText_, cursorOffset, delimiter) ==
    LET opening == delimiter.opening
        closing == delimiter.closing
        textBeforeCursor == Substring(documentText_, 0, cursorOffset)
        tagName == SubSeq(opening, 2, Len(opening) - 1)
        openingTagMatch == execFrom(namedOpeningTagMatches(textBeforeCursor, tagName), 0)
    IN  IF openingTagMatch = Null THEN Null
        ELSE
        LET matchText == Substring(textBeforeCursor, openingTagMatch[1].index,
                                   openingTagMatch[1].end)
            lastOpeningIndex == LastIndexOf(textBeforeCursor, matchText)
            openingEnd == lastOpeningIndex + Len(matchText)
            textAfterOpening == SubstringFrom(documentText_, openingEnd)
            nextClosingIndex == IndexOf(textAfterOpening, closing, 0)
            closingStart == openingEnd + nextClosingIndex
        IN  IF nextClosingIndex = -1 THEN Null
            ELSE IF cursorOffset <= openingEnd \/ cursorOffset >= closingStart THEN Null
            ELSE Some(createSelectionResult(state,
                    PairPosition(lastOpeningIndex, openingEnd, closingStart,
                                 closingStart + Len(closing))))

findSurroundingPair(state, pair) ==
    LET cursorOffset == positionToOffset(state, state.cursorPosition)
        delimiter == getPairDelimiter(pair)
    IN  IF pair.type = "basic"
        THEN findSurroundingBasicPair(state, state.documentText, cursorOffset, delimiter)
        ELSE findSurroundingTagPair(state, state.documentText, cursorOffset, delimiter)

(***************************************************************************)
(* Pair Finder: every pair around the cursor                               *)
(***************************************************************************)
DetectedPair(pairType, range, text) ==
    [pairType |-> pairType, range |-> range, text |-> text]

RECURSIVE findPairsOfTypes(_, _)
findPairsOfTypes(state, pairTypes) ==
    IF pairTypes = <<>> THEN <<>>
    ELSE LET found == findSurroundingPair(state, BasicPair(Head(pairTypes)))
         IN  (IF found = Null THEN <<>>
              ELSE <<DetectedPair(BasicPair(Head(pairTypes)), found[1].range, found[1].text)>>)
             \o findPairsOfTypes(state, Tail(pairTypes))

findBracketPairs(state) == findPairsOfTypes(state, <<"(", "{", "[", "<">>)
findQuotePairs(state) == findPairsOfTypes(state, <<"'", "\"", "BQ">>)

\* The first closing tag of that name after afterPosition, unless an opening
\* tag of that name lies between.
RECURSIVE matchingClosingLoop(_, _, _, _)
matchingClosingLoop(documentText_, tagName, afterPosition, closings) ==
    IF closings = <<>> THEN Null
    ELSE LET closingMatch == Head(closings)
             textBetween == Substring(documentText_, afterPosition, closingMatch.index)
         IN  IF namedOpeningTagMatches(textBetween, tagName) = {}
             THEN Some([start |-> closingMatch.index, end |-> closingMatch.end])
             ELSE matchingClosingLoop(documentText_, tagName, afterPosition, Tail(closings))

findMatchingClosingTag(documentText_, tagName, afterPosition) ==
    matchingClosingLoop(documentText_, tagName, afterPosition,
        execAll(namedClosingTagMatches(documentText_, tagName), afterPosition))

RECURSIVE tagPairsLoop(_, _)
tagPairsLoop(documentText_, openings) ==
    IF openings = <<>> THEN <<>>
    ELSE LET openingMatch == Head(openings)
             matchingClosingTag ==
                 findMatchingClosingTag(documentText_, openingMatch.name, openingMatch.end)
         IN  (IF matchingClosingTag = Null THEN <<>>
              ELSE <<[name |-> openingMatch.name,
                      openingStart |-> openingMatch.index,
                      openingEnd |-> openingMatch.end,
                      closingStart |-> matchingClosingTag[1].start,
                      closingEnd |-> matchingClosingTag[1].end]>>)
             \o tagPairsLoop(documentText_, Tail(openings))

findAllTagPairs(documentText_) ==
    tagPairsLoop(documentText_, execAll(openingTagMatches(documentText_), 0))

isOffsetBetween(offset, start, end) == offset > start /\ offset < end

\* A faulty variant of createDetectedPair: the range starts at the opening tag's start.
createDetectedPairOuter(state, tagPair) ==
    LET range == Range(offsetToPosition(state, tagPair.openingStart),
                       offsetToPosition(state, tagPair.closingStart))
    IN  DetectedPair(TagPair(tagPair.name), range, getTextFromRange(state, range))

createDetectedPair(state, tagPair) ==
    LET range == Range(offsetToPosition(state, tagPair.openingEnd),
                       offsetToPosition(state, tagPair.closingStart))
    IN  DetectedPair(TagPair(tagPair.name), range, getTextFromRange(state, range))

findSurroundingTagPairs(state) ==
    LET cursorOffset == positionToOffset(state, state.cursorPosition)
        allTagPairs == findAllTagPairs(state.documentText)
        surrounding ==
            SelectSeq(allTagPairs,
                LAMBDA pair : isOffsetBetween(cursorOffset, pair.openingEnd, pair.closingStart))
    IN  [k \in 1..Len(surrounding) |-> createDetectedPair(state, surrounding[k])]

findAllSurroundingPairs(state) ==
    findQuotePairs(state) \o findBracketPairs(state) \o findSurroundingTagPairs(state)

(***************************************************************************)
(* Range Selector                                                          *)
(***************************************************************************)
SelectionResult(range, startRange, endRange, text) ==
    [range |-> range, startRange |-> startRange, endRange |-> endRange, text |-> text]

\* String.prototype.search(/\S/): the first non-whitespace column, or -1.
searchNonWhitespace(lineText) ==
    LET hits == {i \in 0..(Len(lineText) - 1) : lineText[i + 1] \notin Whitespace}
    IN  IF hits = {} THEN -1 ELSE CHOOSE i \in hits : \A j \in hits : i <= j

\* A faulty variant of selectEntireLine: the range starts at column 0.
selectEntireLineFromZero(state) ==
    LET line == state.cursorPosition.line
        lineText == getLineText(state, line)
        startPos == Position(line, 0)
        endPos == Position(line, Len(lineText))
    IN  Some(SelectionResult(Range(startPos, endPos), Range(startPos, startPos),
                             Range(endPos, endPos), lineText))

selectEntireLine(state) ==
    LET line == state.cursorPosition.line
        lineText == getLineText(state, line)
        startCharacter == searchNonWhitespace(lineText)
        effectiveStartCharacter == IF startCharacter = -1 THEN 0 ELSE startCharacter
        endCharacter == Len(lineText)
        startPos == Position(line, effectiveStartCharacter)
        endPos == Position(line, endCharacter)
    IN  Some(SelectionResult(Range(startPos, endPos), Range(startPos, startPos),
                             Range(endPos, endPos),
                             SubstringFrom(lineText, effectiveStartCharacter)))

\* A faulty variant of isEmptySelection: only the columns are compared.
isEmptySelectionColumn(sel) == sel.start.character = sel.end.character

isEmptySelection(sel) ==
    sel.start.line = sel.end.line /\ sel.start.character = sel.end.character

selectCurrentSelection(state) ==
    IF isEmptySelection(state.selection) THEN Null
    ELSE Some(SelectionResult(state.selection,
                              Range(state.selection.start, state.selection.start),
                              Range(state.selection.end, state.selection.end),
                              getTextFromRange(state, state.selection)))

\* The first closing tag that starts at or after the cursor.
findClosingTagAfterCursor(documentText_, cursorOffset) ==
    LET after == SelectSeq(execAll(closingTagMatches(documentText_), 0),
                           LAMBDA m : m.index >= cursorOffset)
    IN  IF after = <<>> THEN Null ELSE Some(Head(after))

\* The last opening tag of that name in the text before the closing tag.
findMatchingOpeningTag(documentText_, tagName, closingTagIndex) ==
    LET textBeforeClosingTag == Substring(documentText_, 0, closingTagIndex)
        found == execAll(namedOpeningTagMatches(textBeforeClosingTag, tagName), 0)
    IN  IF found = <<>> THEN Null ELSE Some(found[Len(found)])

findInnerTagContent(state) ==
    LET cursorOffset == positionToOffset(state, state.cursorPosition)
        closingTag == findClosingTagAfterCursor(state.documentText, cursorOffset)
    IN  IF closingTag = Null THEN Null
        ELSE
        LET openingTag == findMatchingOpeningTag(state.documentText, closingTag[1].name,
                                                 closingTag[1].index)
        IN  IF openingTag = Null THEN Null
            ELSE
            LET openingEndPosition ==
                    offsetToPosition(state, openingTag[1].index + Len(openingTag[1].name) + 2)
                closingStartPosition == offsetToPosition(state, closingTag[1].index)
                range == Range(openingEndPosition, closingStartPosition)
            IN  Some(SelectionResult(range,
                    Range(offsetToPosition(state, openingTag[1].index), openingEndPosition),
                    Range(closingStartPosition,
                          offsetToPosition(state,
                              closingTag[1].index + Len(closingTag[1].name) + 3)),
                    getTextFromRange(state, range)))

findEntireTag(state) ==
    LET cursorOffset == positionToOffset(state, state.cursorPosition)
        closingTag == findClosingTagAfterCursor(state.documentText, cursorOffset)
    IN  IF closingTag = Null THEN Null
        ELSE
        LET openingTag == findMatchingOpeningTag(state.documentText, closingTag[1].name,
                                                 closingTag[1].index)
        IN  IF openingTag = Null THEN Null
            ELSE
            LET openingStartPosition == offsetToPosition(state, openingTag[1].index)
                closingEndPosition ==
                    offsetToPosition(state, closingTag[1].index + Len(closingTag[1].name) + 3)
                range == Range(openingStartPosition, closingEndPosition)
            IN  Some(SelectionResult(range,
                    Range(openingStartPosition,
                          offsetToPosition(state,
                              openingTag[1].index + Len(openingTag[1].name) + 2)),
                    Range(offsetToPosition(state, closingTag[1].index), closingEndPosition),
                    getTextFromRange(state, range)))

\* A faulty variant of selfClosingLoop: a tag after the cursor is never kept.
RECURSIVE selfClosingLoopWithin(_, _, _)
selfClosingLoopWithin(found, cursorOffset, bestMatch) ==
    IF found = <<>> THEN bestMatch
    ELSE LET startOffset == Head(found).index
             endOffset == Head(found).end
         IN  IF cursorOffset >= startOffset /\ cursorOffset <= endOffset
             THEN Some([start |-> startOffset, end |-> endOffset])
             ELSE selfClosingLoopWithin(Tail(found), cursorOffset, bestMatch)

\* The loop over the self-closing tags: the one holding the cursor ends the
\* loop; the first one after the cursor is kept when nothing was kept yet.
RECURSIVE selfClosingLoop(_, _, _)
selfClosingLoop(found, cursorOffset, bestMatch) ==
    IF found = <<>> THEN bestMatch
    ELSE LET startOffset == Head(found).index
             endOffset == Head(found).end
         IN  IF cursorOffset >= startOffset /\ cursorOffset <= endOffset
             THEN Some([start |-> startOffset, end |-> endOffset])
             ELSE IF startOffset > cursorOffset /\ bestMatch = Null
             THEN selfClosingLoop(Tail(found), cursorOffset,
                                  Some([start |-> startOffset, end |-> endOffset]))
             ELSE selfClosingLoop(Tail(found), cursorOffset, bestMatch)

findSelfClosingTag(state) ==
    LET cursorOffset == positionToOffset(state, state.cursorPosition)
        bestMatch == selfClosingLoop(execAll(selfClosingTagMatches(state.documentText), 0),
                                     cursorOffset, Null)
    IN  IF bestMatch = Null THEN Null
        ELSE LET range == Range(offsetToPosition(state, bestMatch[1].start),
                                offsetToPosition(state, bestMatch[1].end))
             IN  Some(SelectionResult(range, range, range, getTextFromRange(state, range)))

selectRange(rangeType, state) ==
    CASE rangeType = "_" -> selectEntireLine(state)
      [] rangeType = "s" -> selectCurrentSelection(state)
      [] rangeType = "it" -> findInnerTagContent(state)
      [] rangeType = "at" -> findEntireTag(state)
      [] rangeType = "st" -> findSelfClosingTag(state)
      [] OTHER -> Null

(***************************************************************************)
(* The detectors as their caller sees them: a call returns a value or      *)
(* throws.  The only throw sites are the regular expressions built from a   *)
(* tag name: new RegExp(source) throws a SyntaxError when the groups of     *)
(* source are not closed (an escape takes the next character as it is, a    *)
(* class runs up to its "]").                                               *)
(***************************************************************************)
RECURSIVE regExpWellFormed(_, _, _, _)
regExpWellFormed(source, i, depth, inClass) ==
    IF i > Len(source) THEN depth = 0 /\ ~inClass
    ELSE IF source[i] = "\\" THEN i < Len(source) /\ regExpWellFormed(source, i + 2, depth, inClass)
    ELSE IF inClass THEN regExpWellFormed(source, i + 1, depth, source[i] # "]")
    ELSE IF source[i] = "[" THEN regExpWellFormed(source, i + 1, depth, TRUE)
    ELSE IF source[i] = "(" THEN regExpWellFormed(source, i + 1, depth + 1, FALSE)
    ELSE IF source[i] = ")" THEN depth > 0 /\ regExpWellFormed(source, i + 1, depth - 1, FALSE)
    ELSE regExpWellFormed(source, i + 1, depth, FALSE)

regExpSyntaxError(source) == ~regExpWellFormed(source, 1, 0, FALSE)

\* `<${tagName}[^>]*>` and `</${tagName}\\s*>`
openingTagSource(tagName) == <<"<">> \o tagName \o <<"[", "^", ">", "]", "*", ">">>
closingTagSource(tagName) == <<"<", "/">> \o tagName \o <<"\\", "s", "*", ">">>

\* What a call gives its caller: the value returned, or the error thrown.
Returned(value) == [thrown |-> <<>>, value |-> value]
Thrown(error) == [thrown |-> <<error>>, value |-> Null]

\* findSurroundingPair: a tag pair builds its expression from pair.name
\* before it reads the document.
callFindSurroundingPair(state, pair) ==
    IF pair.type = "tag" /\ regExpSyntaxError(openingTagSource(pair.name))
    THEN Thrown("SyntaxError")
    ELSE Returned(findSurroundingPair(state, pair))

\* selectRange: the tag modes build their expression from the name of the
\* closing tag they found.
callSelectRange(rangeType, state) ==
    LET closingTag == findClosingTagAfterCursor(state.documentText,
                          positionToOffset(state, state.cursorPosition))
    IN  IF /\ rangeType \in {"it", "at"}
           /\ closingTag # Null
           /\ regExpSyntaxError(openingTagSource(closingTag[1].name))
        THEN Thrown("SyntaxError")
        ELSE Returned(selectRange(rangeType, state))

\* findAllSurroundingPairs: findAllTagPairs builds its expressions from the
\* name of every opening tag of the document.
callFindAllSurroundingPairs(state) ==
    IF \E m \in openingTagMatches(state.documentText) :
            \/ regExpSyntaxError(closingTagSource(m.name))
            \/ regExpSyntaxError(openingTagSource(m.name))
    THEN Thrown("SyntaxError")
    ELSE Returned(findAllSurroundingPairs(state))

(***************************************************************************)
(* Edit Generator                                                          *)
(***************************************************************************)
\* A faulty variant of getBracketClosing: a bracket closes with itself.
getBracketClosingSame(ch) == ch

getBracketClosing(ch) ==
    CASE ch = "(" -> ")"
      [] ch = "{" -> "}"
      [] ch = "[" -> "]"
      [] ch = "<" -> ">"

\* A faulty variant of getPairParts: a tag closes with its opening text.
getPairPartsOpenTwice(pair) ==
    IF pair.type = "basic"
    THEN IF isBrackets(pair.name[1])
         THEN [opening |-> pair.name, closing |-> <<getBracketClosing(pair.name[1])>>]
         ELSE [opening |-> pair.name, closing |-> pair.name]
    ELSE [opening |-> <<"<">> \o pair.name \o <<">">>,
          closing |-> <<"<">> \o pair.name \o <<">">>]

getPairParts(pair) ==
    IF pair.type = "basic"
    THEN IF isBrackets(pair.name[1])
         THEN [opening |-> pair.name, closing |-> <<getBracketClosing(pair.name[1])>>]
         ELSE [opening |-> pair.name, closing |-> pair.name]
    ELSE [opening |-> <<"<">> \o pair.name \o <<">">>,
          closing |-> <<"<", "/">> \o pair.name \o <<">">>]

TextEdit(range, newText) == [range |-> range, newText |-> newText]

addPair(ranges, pair) ==
    LET parts == getPairParts(pair)
    IN  <<TextEdit(Range(ranges.range.start, ranges.range.start), parts.opening),
          TextEdit(Range(ranges.range.end, ranges.range.end), parts.closing)>>

\* A faulty variant of deletePair: the closing delimiter is deleted first.
deletePairClosingFirst(ranges) ==
    <<TextEdit(ranges.endRange, <<>>), TextEdit(ranges.startRange, <<>>)>>

\* A faulty variant of deletePair: the second edit deletes the end of the content
\* range, not the closing delimiter.
deletePairOpeningOnly(ranges) ==
    <<TextEdit(ranges.startRange, <<>>),
      TextEdit(Range(ranges.range.end, ranges.range.end), <<>>)>>

deletePair(ranges) ==
    <<TextEdit(ranges.startRange, <<>>), TextEdit(ranges.endRange, <<>>)>>

\* A faulty variant of replacePair: the first edit runs from the opening
\* delimiter to the end of the closing one.
replacePairAround(ranges, destinationPair) ==
    LET parts == getPairParts(destinationPair)
    IN  <<TextEdit(Range(ranges.startRange.start, ranges.endRange.end), parts.opening),
          TextEdit(ranges.endRange, parts.closing)>>

replacePair(ranges, destinationPair) ==
    LET parts == getPairParts(destinationPair)
    IN  <<TextEdit(ranges.startRange, parts.opening),
          TextEdit(ranges.endRange, parts.closing)>>

\* A faulty variant of getTextEdits: a replace without a source pair is carried
\* out.
getTextEditsSourceless(operation, ranges, pair, sourcePair) ==
    CASE operation = "add" -> [edits |-> addPair(ranges, pair), error |-> <<>>]
      [] operation = "delete" -> [edits |-> deletePair(ranges), error |-> <<>>]
      [] operation = "replace" -> [edits |-> replacePair(ranges, pair), error |-> <<>>]
      [] OTHER -> [edits |-> <<>>, error |-> <<"Unknown operation: ", operation>>]

\* A faulty variant of getTextEdits: an unknown operation yields no edits and
\* no error.
getTextEditsSilent(operation, ranges, pair, sourcePair) ==
    CASE operation = "add" -> [edits |-> addPair(ranges, pair), error |-> <<>>]
      [] operation = "delete" -> [edits |-> deletePair(ranges), error |-> <<>>]
      [] operation = "replace" ->
            IF sourcePair = Null
            THEN [edits |-> <<>>,
                  error |-> <<"Source pair is required for replace operation">>]
            ELSE [edits |-> replacePair(ranges, pair), error |-> <<>>]
      [] OTHER -> [edits |-> <<>>, error |-> <<>>]

\* A faulty variant of getTextEdits: a replace measures the delimiters to
\* rewrite by the source pair, leftwards and rightwards of the inner range.
getTextEditsBySource(operation, ranges, pair, sourcePair) ==
    CASE operation = "add" -> [edits |-> addPair(ranges, pair), error |-> <<>>]
      [] operation = "delete" -> [edits |-> deletePair(ranges), error |-> <<>>]
      [] operation = "replace" ->
            IF sourcePair = Null
            THEN [edits |-> <<>>,
                  error |-> <<"Source pair is required for replace operation">>]
            ELSE LET source == getPairParts(sourcePair[1])
                     dest == getPairParts(pair)
                     r == ranges.range
                 IN  [edits |->
                        <<TextEdit(Range(Position(r.start.line,
                                            r.start.character - Len(source.opening)),
                                         r.start), dest.opening),
                          TextEdit(Range(r.end,
                                         Position(r.end.line,
                                            r.end.character + Len(source.closing))),
                                   dest.closing)>>,
                      error |-> <<>>]
      [] OTHER -> [edits |-> <<>>, error |-> <<"Unknown operation: ", operation>>]

\* The edits, or the error thrown: [edits |-> ..., error |-> message], the
\* message being the sequence of its parts (empty when nothing is thrown).
getTextEdits(operation, ranges, pair, sourcePair) ==
    CASE operation = "add" -> [edits |-> addPair(ranges, pair), error |-> <<>>]
      [] operation = "delete" -> [edits |-> deletePair(ranges), error |-> <<>>]
      [] operation = "replace" ->
            IF sourcePair = Null
            THEN [edits |-> <<>>,
                  error |-> <<"Source pair is required for replace operation">>]
            ELSE [edits |-> replacePair(ranges, pair), error |-> <<>>]
      [] OTHER -> [edits |-> <<>>, error |-> <<"Unknown operation: ", operation>>]

(***************************************************************************)
(* The host applying the edits of one call as a single document change:    *)
(* every range is read against the document as it was before the change.   *)
(***************************************************************************)
applyTextEdits(state, edits) ==
    LET text == state.documentText
        s1 == positionToOffset(state, edits[1].range.start)
        e1 == positionToOffset(state, edits[1].range.end)
        s2 == positionToOffset(state, edits[2].range.start)
        e2 == positionToOffset(state, edits[2].range.end)
    IN  IF e1 <= s2
        THEN Substring(text, 0, s1) \o edits[1].newText \o Substring(text, e1, s2)
             \o edits[2].newText \o SubstringFrom(text, e2)
        ELSE IF e2 <= s1
        THEN Substring(text, 0, s2) \o edits[2].newText \o Substring(text, e2, s1)
             \o edits[1].newText \o SubstringFrom(text, e1)
        ELSE text

(***************************************************************************)
(* The pickers of the command: createCommonQuickPick shows a list of       *)
(* labelled values and returns a promise of the value picked.              *)
(***************************************************************************)
LowerCaseLetters == <<"a", "d", "i", "r", "x">>
UpperCaseLetters == <<"A", "D", "I", "R", "X">>

\* String.prototype.toLowerCase, on the letters the model types
toLowerCaseChar(ch) ==
    IF \E k \in 1..Len(UpperCaseLetters) : UpperCaseLetters[k] = ch
    THEN LowerCaseLetters[CHOOSE k \in 1..Len(UpperCaseLetters) : UpperCaseLetters[k] = ch]
    ELSE ch
toLowerCase(text) == [k \in 1..Len(text) |-> toLowerCaseChar(text[k])]

ValueQuickPickItem(label, value) == [label |-> label, value |-> value]

\* showOperationQuickPick: the operations
operations ==
    <<ValueQuickPickItem(<<"a">>, "add"), ValueQuickPickItem(<<"d">>, "delete"),
      ValueQuickPickItem(<<"r">>, "replace")>>

\* createTagNameOptions: the names of the tags detected around the cursor
tagOptions == <<ValueQuickPickItem(<<"d", "i">>, "di"), ValueQuickPickItem(<<"x">>, "x")>>

\* DEFAULT_CONFIG.enterToConfirm
DEFAULT_ENTER_TO_CONFIRM == FALSE

\* No picker was created yet.
NoQuickPick ==
    [shown |-> FALSE, enterToConfirm |-> DEFAULT_ENTER_TO_CONFIRM, items |-> <<>>,
     value |-> <<>>, activeItems |-> <<>>, selectedValue |-> Null, resolved |-> Null,
     accepts |-> 0, dismissed |-> FALSE]

\* Find an item that exactly matches the input value
findExactMatchItem(items, value) ==
    LET hits == {k \in 1..Len(items) : toLowerCase(items[k].label) = toLowerCase(value)}
    IN  IF hits = {} THEN Null
        ELSE Some(items[CHOOSE k \in hits : \A j \in hits : k <= j])

\* quickPick.hide() followed by the onDidHide handler: the promise resolves
\* with selectedValue unless it is resolved already.
hide(qp) ==
    [qp EXCEPT !.shown = FALSE,
               !.resolved = IF qp.resolved = Null THEN Some(qp.selectedValue) ELSE @]

\* A faulty variant of handleAutoSelection: enterToConfirm is not looked at.
handleAutoSelectionAlways(qp) ==
    IF Len(qp.items) > 0 /\ qp.value # <<>> /\ findExactMatchItem(qp.items, qp.value) # Null
    THEN hide([qp EXCEPT !.selectedValue = Some(findExactMatchItem(qp.items, qp.value)[1].value)])
    ELSE qp

\* handleAutoSelection: without enterToConfirm, an exact match is picked at
\* once.
handleAutoSelection(qp) ==
    IF /\ ~qp.enterToConfirm
       /\ Len(qp.items) > 0
       /\ qp.value # <<>>
       /\ findExactMatchItem(qp.items, qp.value) # Null
    THEN hide([qp EXCEPT !.selectedValue = Some(findExactMatchItem(qp.items, qp.value)[1].value)])
    ELSE qp

\* onDidChangeActive: the same, when one item is active.
onDidChangeActive(qp) ==
    IF /\ ~qp.enterToConfirm
       /\ Len(qp.activeItems) = 1
       /\ qp.value # <<>>
       /\ findExactMatchItem(qp.items, qp.value) # Null
    THEN hide([qp EXCEPT !.selectedValue = Some(findExactMatchItem(qp.items, qp.value)[1].value)])
    ELSE qp

\* onDidAccept: the active item is picked.
onDidAccept(qp) ==
    hide([qp EXCEPT !.selectedValue = Some(qp.activeItems[1].value),
                    !.accepts = @ + 1])

\* The items the host keeps in the list for a typed value: those whose label
\* holds the value, whatever the case.
RECURSIVE includes(_, _, _)
includes(text, part, i) ==
    /\ i + Len(part) <= Len(text)
    /\ (SubSeq(text, i + 1, i + Len(part)) = part \/ includes(text, part, i + 1))

filteredItems(items, value) ==
    SelectSeq(items, LAMBDA it : includes(toLowerCase(it.label), toLowerCase(value), 0))

(***************************************************************************)
(* The documents of the model: every concatenation of the pieces of a      *)
(* family up to the family's length bound, and the documents of the test   *)
(* suite.                                                                  *)
(***************************************************************************)
QuotePieces == {<<"'">>, <<"x">>, <<"\n">>}
BracketPieces == {<<"(">>, <<")">>, <<"x">>}
TagPieces == {<<"<", "d", ">">>, <<"<", "/", "d", ">">>, <<"<", "d", " ", "a", ">">>,
              <<"x", "x">>}
SelfClosingPieces == {<<"<", "d", "/", ">">>, <<"<", "d", ">">>, <<"<", "/", "d", ">">>,
                      <<"x">>}
IndentPieces == {<<" ">>, <<"x">>, <<"\n">>}

RECURSIVE DocsFrom(_, _, _)
DocsFrom(docs, pieces, maxLen) ==
    LET more == docs \cup {d \o p : d \in docs, p \in pieces}
        kept == {d \in more : Len(d) <= maxLen}
    IN  IF kept = docs THEN docs ELSE DocsFrom(kept, pieces, maxLen)

DocsOf(pieces, maxLen) == DocsFrom({<<>>}, pieces, maxLen)

\* rangeSelector.test.ts: cursor outside the quotes
QuoteOutsideDoc ==
    <<"i", "m", "p", "o", "r", "t", " ", "h", "o", "g", "e", " ", "f", "r", "o", "m",
      " ", "'", "f", "u", "g", "a", "'", ";", " ", "h", "e", "l", "l", "o", ",", " ",
      "w", "o", "r", "l", "d", ";", " ", "c", "o", "n", "s", "o", "l", "e", ".", "l",
      "o", "g", "(", "'", "h", "o", "o", "'", ")", ";">>

\* the nested same-named tags of the tag innermost-wins property
NestedDivDoc ==
    <<"<", "d", "i", "v", ">", "<", "d", "i", "v", ">", "X", "<", "d", "i", "v", ">",
      "Y", "<", "/", "d", "i", "v", ">", "Z", "<", "/", "d", "i", "v", ">", "<", "/",
      "d", "i", "v", ">">>

\* rangeSelector.test.ts: nested tags
NestedTagsDoc ==
    <<"<", "d", "i", "v", ">", "<", "d", "i", "v", ">", "<", "p", ">", "H", "e", "l",
      "l", "o", " ", "w", "o", "r", "l", "d", "<", "/", "p", ">", "<", "/", "d", "i",
      "v", ">", "<", "/", "d", "i", "v", ">">>

\* rangeSelector.test.ts: all pairs around the cursor
AllPairsDoc ==
    <<"<", "d", "i", "v", ">", "<", "p", ">", "H", "e", "l", "l", "o", " ", "'", "w",
      "o", "r", "l", "d", "'", "<", "/", "p", ">", "<", "/", "d", "i", "v", ">">>

\* rangeSelector.test.ts: cursor outside the p tag
OutsideTagDoc ==
    <<"<", "d", "i", "v", ">", "<", "p", ">", "H", "e", "l", "l", "o", " ", "w", "o",
      "r", "l", "d", "<", "/", "p", ">", "<", "s", "p", "a", "n", ">", "o", "u", "t",
      "s", "i", "d", "e", "<", "/", "s", "p", "a", "n", ">", "<", "/", "d", "i", "v",
      ">">>

\* a self-closing tag inside two nested elements of its name
SelfClosingNestedDoc ==
    <<"<", "d", ">", "<", "d", ">", "a", "<", "d", "/", ">", "x", "x", "<", "/", "d",
      ">", "<", "/", "d", ">">>

\* rangeSelector.test.ts: the line excluding leading whitespace
IndentedLineDoc ==
    <<"l", "i", "n", "e", "1", "\n", " ", " ", " ", " ", "l", "i", "n", "e", "2",
      " ", "w", "i", "t", "h", " ", "c", "u", "r", "s", "o", "r", "\n", "l", "i",
      "n", "e", "3">>

\* rangeSelector.test.ts: the current selection
SelectedDoc ==
    <<"l", "i", "n", "e", "1", "\n", "l", "i", "n", "e", "2", " ", "s", "e", "l",
      "e", "c", "t", "e", "d", "\n", "l", "i", "n", "e", "3">>

\* rangeSelector.test.ts: the inner content of a tag, the entire tag
InnerTagDoc ==
    <<"<", "d", "i", "v", ">", "<", "p", ">", "H", "e", "l", "l", "o", " ", "w",
      "o", "r", "l", "d", "<", "/", "p", ">", "<", "/", "d", "i", "v", ">">>

\* a closing tag with whitespace before its >
ClosingSpaceDoc ==
    <<"<", "d", ">", "x", "x", "<", "/", "d", " ", ">">>

\* an element over three lines
MultiLineTagDoc ==
    <<"<", "d", " ", "a", ">", "\n", "x", "x", "\n", "<", "/", "d", ">">>

\* rangeSelector.test.ts: a self-closing tag
SelfClosingDoc ==
    <<"<", "d", "i", "v", ">", "<", "i", "m", "g", " ", "s", "r", "c", "=", "\"",
      "i", "m", "a", "g", "e", ".", "j", "p", "g", "\"", " ", "/", ">", "<", "/",
      "d", "i", "v", ">">>

\* rangeSelector.test.ts: multi-line tags
MultiLineTestDoc ==
    <<"<", "d", "i", "v", ">", "\n", " ", " ", "<", "p", ">", "\n", " ", " ", " ",
      " ", "H", "e", "l", "l", "o", "\n", " ", " ", " ", " ", "w", "o", "r", "l",
      "d", "\n", " ", " ", "<", "/", "p", ">", "\n", "<", "/", "d", "i", "v", ">">>

TestDocs ==
    {QuoteOutsideDoc, NestedDivDoc, NestedTagsDoc, AllPairsDoc, OutsideTagDoc,
     SelfClosingNestedDoc, IndentedLineDoc, SelectedDoc, InnerTagDoc,
     ClosingSpaceDoc, MultiLineTagDoc, SelfClosingDoc, MultiLineTestDoc}

Documents ==
    DocsOf(QuotePieces, MaxQuoteLen) \cup DocsOf(BracketPieces, MaxBracketLen)
    \cup DocsOf(TagPieces, MaxTagLen) \cup DocsOf(SelfClosingPieces, MaxSelfClosingLen)
    \cup DocsOf(IndentPieces, MaxIndentLen) \cup TestDocs

\* The pair descriptors the model asks for.
TagNames == {<<"d">>, <<"p">>, <<"d", "i", "v">>}
ModelPairs ==
    {BasicPair("'"), BasicPair("("), BasicPair("<")} \cup {TagPair(n) : n \in TagNames}

\* The pair descriptors the add command is given.
AddPairs == {BasicPair("'"), BasicPair("("), BasicPair("<"), TagPair(<<"d">>)}

\* The start of the opening delimiter of a pair occurs in the text: "<name"
\* for a tag, the opening character otherwise.  (When it does not, every
\* finder returns null at once.)
OpeningOccurs(text, pair) ==
    IndexOf(text, IF pair.type = "tag" THEN <<"<">> \o pair.name ELSE pair.name, 0) # -1

RangeTypes == {"_", "s", "it", "at", "st"}

NoArg == [type |-> "none", name |-> <<>>]
RangeTypeArg(rangeType) == [type |-> "rangeType", name |-> <<rangeType>>]

\* The snapshot the host hands to the core in the current state.
CurrentState == EditorState(documentText, cursorPosition, selection)

\* The snapshot with the cursor (an empty selection) at position p.
StateAt(p) == EditorState(documentText, p, Range(p, p))

Positions == ValidPositions(EditorState(documentText, Position(0, 0),
                                        Range(Position(0, 0), Position(0, 0))))

\* an element, and nothing else
ElementDoc ==
    <<"<", "d", ">", "x", "x", "<", "/", "d", ">">>

\* The longer documents the command is run on.
CommandDocs == {ElementDoc, ClosingSpaceDoc}

\* The editors of the window (two splits of the document), the command
\* before it is invoked.
Editors == {1, 2}
NoEditor == 0

NoCommand ==
    [pc |-> "idle", operation |-> Null, isHtml |-> FALSE, enterToConfirm |-> FALSE,
     rangeType |-> Null, detectedPairs |-> <<>>, sourcePair |-> Null, target |-> Null,
     highlightCalls |-> 0, clearCalls |-> 0, edits |-> Null, applied |-> FALSE,
     dismissed |-> <<>>, errorMessage |-> <<>>]

InitialWindow == [activeTextEditor |-> 1, decorations |-> [e \in Editors |-> {}]]

(***************************************************************************)
(* The state machine: a session starts from a document with nothing        *)
(* called; each action is the user placing the cursor (or selecting) and   *)
(* one call of a core entry point, or one command applying its edits.      *)
(***************************************************************************)
Init ==
    /\ documentText \in Documents
    /\ cursorPosition = Position(0, 0)
    /\ selection = Range(Position(0, 0), Position(0, 0))
    /\ op = "idle"
    /\ arg = NoArg
    /\ result = Null
    /\ original = documentText
    /\ quickPick = NoQuickPick
    /\ command = NoCommand
    /\ window = InitialWindow

\* positionToOffset followed by offsetToPosition on a valid position.
ConvertPosition ==
    /\ op = "idle"
    /\ \E p \in Positions :
        /\ cursorPosition' = p
        /\ selection' = Range(p, p)
        /\ result' = Some(offsetToPosition(StateAt(p), positionToOffset(StateAt(p), p)))
    /\ op' = "offsetToPosition"
    /\ arg' = NoArg
    /\ UNCHANGED <<documentText, original, quickPick, command, window>>

\* findSurroundingPair(editorState, pair)
FindSurroundingPair ==
    /\ op = "idle"
    /\ \E p \in Positions, pair \in ModelPairs :
        /\ OpeningOccurs(documentText, pair)
        /\ cursorPosition' = p
        /\ selection' = Range(p, p)
        /\ arg' = pair
        /\ result' = findSurroundingPair(StateAt(p), pair)
    /\ op' = "findSurroundingPair"
    /\ UNCHANGED <<documentText, original, quickPick, command, window>>

\* findAllSurroundingPairs(editorState)
FindAllSurroundingPairs ==
    /\ op = "idle"
    /\ \E p \in Positions :
        /\ cursorPosition' = p
        /\ selection' = Range(p, p)
        /\ result' = findAllSurroundingPairs(StateAt(p))
    /\ op' = "findAllSurroundingPairs"
    /\ arg' = NoArg
    /\ UNCHANGED <<documentText, original, quickPick, command, window>>

\* selectRange(rangeType, editorState); the cursor is the active end of the
\* selection.
SelectRange ==
    /\ op = "idle"
    /\ \E p \in Positions, q \in Positions, rangeType \in RangeTypes :
        /\ (rangeType # "s" => q = p)
        /\ (rangeType = "s" => Len(documentText) <= MaxEditLen \/ documentText = SelectedDoc)
        /\ cursorPosition' = p
        /\ selection' = IF PosLeq(q, p) THEN Range(q, p) ELSE Range(p, q)
        /\ arg' = RangeTypeArg(rangeType)
        /\ result' = selectRange(rangeType, EditorState(documentText, cursorPosition',
                                                        selection'))
    /\ op' = "selectRange"
    /\ UNCHANGED <<documentText, original, quickPick, command, window>>

\* The add flow: selectRange, getTextEdits("add", ...) on its result, and the
\* host applying the two edits.  result keeps the range that was wrapped.  (The
\* selection is made from its start to its end: the cursor is its end.)
AddPair ==
    /\ op = "idle"
    /\ Len(documentText) <= MaxEditLen
    /\ \E p \in Positions, q \in Positions, rangeType \in {"_", "s"}, pair \in AddPairs :
        /\ (rangeType # "s" => q = p)
        /\ PosLeq(q, p)
        /\ cursorPosition' = p
        /\ selection' = Range(q, p)
        /\ LET state == EditorState(documentText, cursorPosition', selection')
               rangeResult == selectRange(rangeType, state)
           IN  /\ rangeResult # Null
               /\ result' = rangeResult
               /\ documentText' =
                    applyTextEdits(state, getTextEdits("add", rangeResult[1], pair, Null).edits)
        /\ arg' = pair
    /\ op' = "add"
    /\ UNCHANGED <<original, quickPick, command, window>>

\* The span of the wrapped content after an add: its first and last offset.
WrappedStart ==
    positionToOffset(EditorState(original, Position(0, 0),
                                 Range(Position(0, 0), Position(0, 0))),
                     result[1].range.start)
    + Len(getPairParts(arg).opening)
WrappedEnd == WrappedStart + Len(result[1].text)

\* The delete command after an add, with the cursor at a point of the
\* wrapped content: findSurroundingPair, getTextEdits("delete", ...), and
\* the host applying the two edits.  Nothing is applied when no pair is found.
DeletePair ==
    /\ op = "add"
    /\ \E p \in Positions :
        /\ LET c == positionToOffset(StateAt(p), p)
           IN  WrappedStart <= c /\ c <= WrappedEnd
        /\ cursorPosition' = p
        /\ selection' = Range(p, p)
        /\ LET surroundingPair == findSurroundingPair(StateAt(p), arg)
           IN  IF surroundingPair = Null
               THEN /\ op' = "deleteNotFound"
                    /\ documentText' = documentText
               ELSE /\ op' = "delete"
                    /\ documentText' =
                         applyTextEdits(StateAt(p),
                             getTextEdits("delete", surroundingPair[1], arg, Null).edits)
    /\ UNCHANGED <<arg, result, original, quickPick, command, window>>

\* The pair descriptors and the calls getTextEdits is given: an operation
\* ("swap" is no operation of the extension), a pair and a source pair or none.
EditPairs ==
    {BasicPair(QUOTES_DELIMITERS[k]) : k \in 1..Len(QUOTES_DELIMITERS)}
    \cup {BasicPair(BRACKETS_DELIMITERS[k]) : k \in 1..Len(BRACKETS_DELIMITERS)}
    \cup {TagPair(<<"d">>)}
ReplacePairs == {BasicPair("'"), BasicPair("["), TagPair(<<"d">>)}
EditCalls ==
    [operation : {"add"}, pair : EditPairs, sourcePair : {Null}]
    \cup [operation : {"delete"}, pair : {BasicPair("'"), TagPair(<<"d">>)}, sourcePair : {Null}]
    \cup [operation : {"replace"}, pair : ReplacePairs,
          sourcePair : {Null} \cup {Some(x) : x \in ReplacePairs}]
    \cup [operation : {"swap"}, pair : {BasicPair("'")},
          sourcePair : {Null, Some(BasicPair("'"))}]

EditArg(call, ranges, from, of) ==
    [type |-> "getTextEdits", name |-> <<call.operation>>, pair |-> call.pair,
     sourcePair |-> call.sourcePair, ranges |-> ranges, from |-> from, of |-> of]

\* getTextEdits(operation, ranges, pair, sourcePair) on a range that
\* selectRange or findSurroundingPair has returned.  arg keeps the call and
\* where its range came from, result what was returned or thrown.
GetTextEdits ==
    /\ op \in {"selectRange", "findSurroundingPair"}
    /\ result # Null
    /\ Len(documentText) <= MaxEditsDocLen
    /\ \E call \in EditCalls :
        /\ arg' = EditArg(call, result[1], op, arg)
        /\ result' = Some(getTextEdits(call.operation, result[1], call.pair, call.sourcePair))
    /\ op' = "getTextEdits"
    /\ UNCHANGED <<documentText, cursorPosition, selection, original, quickPick, command, window>>

\* The pair descriptors a caller can pass: every quote, every bracket, and a
\* tag of any name the tag input box accepts or the type allows.
AnyTagNames == {<<"d">>, <<>>, <<"(">>, <<"d", ")">>}
AnyPairs ==
    {BasicPair(QUOTES_DELIMITERS[k]) : k \in 1..Len(QUOTES_DELIMITERS)}
    \cup {BasicPair(BRACKETS_DELIMITERS[k]) : k \in 1..Len(BRACKETS_DELIMITERS)}
    \cup {TagPair(n) : n \in AnyTagNames}

DetectorCalls ==
    [name : {"findSurroundingPair"}, pair : AnyPairs, rangeType : {"_"}]
    \cup [name : {"selectRange"}, pair : {BasicPair("'")}, rangeType : RangeTypes]
    \cup [name : {"findAllSurroundingPairs"}, pair : {BasicPair("'")}, rangeType : {"_"}]

CallArg(call) ==
    [type |-> "call", name |-> <<call.name>>, pair |-> call.pair, rangeType |-> call.rangeType]

\* One call of a detector with the cursor anywhere, on any document: result
\* keeps what the caller gets, a value or an error.
CallDetector ==
    /\ op = "idle"
    /\ Len(documentText) <= MaxCallDocLen
    /\ \E p \in Positions, call \in DetectorCalls :
        /\ cursorPosition' = p
        /\ selection' = Range(p, p)
        /\ arg' = CallArg(call)
        /\ result' = Some(CASE call.name = "findSurroundingPair" ->
                                callFindSurroundingPair(StateAt(p), call.pair)
                            [] call.name = "selectRange" ->
                                callSelectRange(call.rangeType, StateAt(p))
                            [] OTHER -> callFindAllSurroundingPairs(StateAt(p)))
    /\ op' = "call"
    /\ UNCHANGED <<documentText, original, quickPick, command, window>>

\* The lists a picker is created with, and the keys typed into it.
PickerItems == {operations, tagOptions}
Keys == {"a", "A", "d", "i", "x"}

\* The items the host may make active: any one of the listed items, none
\* when the list is empty.
ActiveChoices(items) ==
    IF items = <<>> THEN {<<>>} ELSE {<<items[k]>> : k \in 1..Len(items)}

\* createCommonQuickPick(items, placeHolder): the picker is shown with its
\* first item active.
CreateCommonQuickPick ==
    /\ op = "idle"
    /\ Len(documentText) <= MaxPickDocLen
    /\ \E items \in PickerItems, enterToConfirm \in BOOLEAN :
        quickPick' = onDidChangeActive(
                        [NoQuickPick EXCEPT !.shown = TRUE, !.enterToConfirm = enterToConfirm,
                                            !.items = items, !.activeItems = <<items[1]>>])
    /\ op' = "quickPick"
    /\ UNCHANGED <<documentText, cursorPosition, selection, arg, result, original,
                   command, window>>

\* The user types a key: the host filters the list, onDidChangeValue runs,
\* then onDidChangeActive when the picker is still shown.
TypeKey ==
    /\ op = "quickPick"
    /\ quickPick.shown
    /\ Len(quickPick.value) < MaxTyped
    /\ \E key \in Keys :
        LET value == quickPick.value \o <<key>>
        IN  \E active \in ActiveChoices(filteredItems(quickPick.items, value)) :
                LET changed == handleAutoSelection([quickPick EXCEPT !.value = value])
                IN  quickPick' = IF changed.shown
                                 THEN onDidChangeActive([changed EXCEPT !.activeItems = active])
                                 ELSE changed
    /\ UNCHANGED <<documentText, cursorPosition, selection, op, arg, result, original,
                   command, window>>

\* The user moves to another item of the list with the arrow keys.
MoveActive ==
    /\ op = "quickPick"
    /\ quickPick.shown
    /\ \E active \in ActiveChoices(filteredItems(quickPick.items, quickPick.value)) :
        /\ active # quickPick.activeItems
        /\ quickPick' = onDidChangeActive([quickPick EXCEPT !.activeItems = active])
    /\ UNCHANGED <<documentText, cursorPosition, selection, op, arg, result, original,
                   command, window>>

\* The user presses Enter on the active item.
Accept ==
    /\ op = "quickPick"
    /\ quickPick.shown
    /\ quickPick.activeItems # <<>>
    /\ quickPick' = onDidAccept(quickPick)
    /\ UNCHANGED <<documentText, cursorPosition, selection, op, arg, result, original,
                   command, window>>

\* The user dismisses the picker (Escape, or the focus leaves it): the host
\* hides it.
Dismiss ==
    /\ op = "quickPick"
    /\ quickPick.shown
    /\ quickPick' = hide([quickPick EXCEPT !.dismissed = TRUE])
    /\ UNCHANGED <<documentText, cursorPosition, selection, op, arg, result, original,
                   command, window>>

\* The offsets that are converted: around the document and around the
\* ceiling of the loop.
Offsets ==
    (0..(Len(documentText) + MaxPastEnd))
    \cup ((MAX_LINES - MaxPastEnd)..(MAX_LINES + Len(documentText) + MaxPastEnd))

OffsetArg(offset) == [type |-> "offset", name |-> <<>>, offset |-> offset]

\* offsetToPosition(editorState, offset) on any offset that is not negative.
ConvertOffset ==
    /\ op = "idle"
    /\ Len(documentText) <= MaxOffsetDocLen
    /\ \E offset \in Offsets :
        /\ arg' = OffsetArg(offset)
        /\ result' = Some(callOffsetToPosition(CurrentState, offset))
    /\ op' = "convertOffset"
    /\ UNCHANGED <<documentText, cursorPosition, selection, original, quickPick, command, window>>

RangeArg(range) == [type |-> "range", name |-> <<>>, range |-> range]

\* getTextFromRange(editorState, range) on a range inside the buffer whose
\* start is not after its end.
GetTextFromRange ==
    /\ op = "idle"
    /\ Len(documentText) <= MaxTextDocLen
    /\ \E p \in Positions, q \in Positions :
        /\ PosLeq(p, q)
        /\ arg' = RangeArg(Range(p, q))
        /\ result' = Some(getTextFromRange(CurrentState, Range(p, q)))
    /\ op' = "getTextFromRange"
    /\ UNCHANGED <<documentText, cursorPosition, selection, original, quickPick, command, window>>

(***************************************************************************)
(* The sandwich command: executeSandwichCommand awaits one picker after    *)
(* another; each action below is one picker settling (a value, or nothing  *)
(* when it is dismissed) and the handler running on to its next await or   *)
(* to its return.  The editor is shown in two splits of the window, each   *)
(* with its own decorations; the active one can change while a picker is   *)
(* awaited.                                                                *)
(***************************************************************************)
\* Highlighter.highlight: the decoration of the active editor becomes the
\* range; nothing without an active editor.
highlight(w, range) ==
    IF w.activeTextEditor = NoEditor THEN w
    ELSE [w EXCEPT !.decorations[w.activeTextEditor] = {range}]

\* Highlighter.clearHighlights: the decorations of the active editor are
\* removed; nothing without an active editor.
clearHighlights(w) ==
    IF w.activeTextEditor = NoEditor THEN w
    ELSE [w EXCEPT !.decorations[w.activeTextEditor] = {}]

\* The command with its window and document: what a handler works on.
Running == [command |-> command, window |-> window, documentText |-> documentText]

\* The handler returns.
return(m) == [m EXCEPT !.command.pc = "done"]

\* The picker awaited gave nothing (it was dismissed, the name entered was
\* empty, the confirmation was not "Yes"): the command keeps which.
withNothing(m) == [m EXCEPT !.command.dismissed = <<m.command.pc>>]

\* vscode.window.showErrorMessage, then return; an error thrown reaches the
\* catch of executeSandwichCommand, which shows it.
showErrorMessage(m, message) ==
    return([m EXCEPT !.command.errorMessage = message])

callHighlight(m, range) ==
    [m EXCEPT !.window = highlight(m.window, range),
              !.command.highlightCalls = m.command.highlightCalls + 1]

callClearHighlights(m) ==
    [m EXCEPT !.window = clearHighlights(m.window),
              !.command.clearCalls = m.command.clearCalls + 1]

\* getAndApplyTextEdits: the edits of the generator, applied to the document
\* of the active editor as one change.  (The add and replace handlers of
\* replace.ts name the inner range, written against an earlier generator; the
\* detected range is handed over here as the delete handler does.)
getAndApplyTextEdits(m, operation, ranges, destinationPair, sourcePair) ==
    LET coreEdits == getTextEdits(operation, ranges, destinationPair, sourcePair)
        withEdits == [m EXCEPT !.command.edits = Some(coreEdits.edits)]
    IN  IF coreEdits.error # <<>>
        THEN showErrorMessage(m, <<"Error: ">> \o coreEdits.error)
        ELSE IF m.window.activeTextEditor = NoEditor
        THEN showErrorMessage(withEdits, <<"Failed to apply edits">>)
        ELSE return([withEdits EXCEPT
                        !.command.applied = TRUE,
                        !.documentText = applyTextEdits(CurrentState, coreEdits.edits)])

\* createBasicPairOptions, and createHtmlTagOption on an HTML-like document.
createBasicPairOptions ==
    {BasicPair(QUOTES_DELIMITERS[k]) : k \in 1..Len(QUOTES_DELIMITERS)}
    \cup {BasicPair(BRACKETS_DELIMITERS[k]) : k \in 1..Len(BRACKETS_DELIMITERS)}
defaultPairOptions(isHtml) ==
    createBasicPairOptions \cup (IF isHtml THEN {TagPair(<<>>)} ELSE {})

\* createQuickPickItemsFromDetectedPairs with removeDuplicatePairOptions: the
\* values of the items, one per basic pair detected and, on an HTML-like
\* document, the first tag detected.
detectedPairOptions(detectedPairs, isHtml) ==
    LET tags == {k \in 1..Len(detectedPairs) : detectedPairs[k].pairType.type = "tag"}
        first == CHOOSE k \in tags : \A j \in tags : k <= j
    IN  {detectedPairs[k].pairType :
            k \in {j \in 1..Len(detectedPairs) : detectedPairs[j].pairType.type = "basic"}}
        \cup (IF isHtml /\ tags # {} THEN {detectedPairs[first].pairType} ELSE {})

\* createTagNameOptions: the names of the tags detected.
createTagNameOptions(detectedPairs) ==
    {detectedPairs[k].pairType.name :
        k \in {j \in 1..Len(detectedPairs) : detectedPairs[j].pairType.type = "tag"}}

\* The items of the source-pair picker: the default options when nothing is
\* detected.
sourcePairOptions(detectedPairs, isHtml) ==
    IF Len(detectedPairs) = 0 THEN defaultPairOptions(isHtml)
    ELSE detectedPairOptions(detectedPairs, isHtml)

\* showRangeTypeQuickPick: the range types offered.
rangeTypeOptions(state, isHtml) ==
    {"_"} \cup (IF isEmptySelection(state.selection) THEN {} ELSE {"s"})
          \cup (IF isHtml THEN {"it", "st", "at"} ELSE {})

\* What the tag-name input box can give back: the empty name, a name, a name
\* that is no tag name.
PromptedTagNames == {<<>>, <<"d">>, <<"(">>}

\* The command is invoked: the operation picker is shown.  The cursor and
\* the selection are those of the editor the handlers will read.
ExecuteSandwichCommand ==
    /\ op = "idle"
    /\ command.pc = "idle"
    /\ Len(documentText) <= MaxCommandDocLen \/ documentText \in CommandDocs
    /\ \E p \in Positions, q \in Positions, isHtml \in BOOLEAN,
          enterToConfirm \in BOOLEAN, editor \in {1, NoEditor} :
        /\ q \in {p, Position(0, 0)}
        /\ cursorPosition' = p
        /\ selection' = Range(q, p)
        /\ command' = [NoCommand EXCEPT !.pc = "operation", !.isHtml = isHtml,
                                        !.enterToConfirm = enterToConfirm]
        /\ window' = [window EXCEPT !.activeTextEditor = editor]
    /\ op' = "executeSandwichCommand"
    /\ UNCHANGED <<documentText, arg, result, original, quickPick>>

\* The host makes another editor active, or none, while a picker of the
\* add, delete or replace handler is awaited.
ChangeActiveTextEditor ==
    /\ command.pc \notin {"idle", "operation", "done"}
    /\ \E editor \in (Editors \cup {NoEditor}) \ {window.activeTextEditor} :
        window' = [window EXCEPT !.activeTextEditor = editor]
    /\ UNCHANGED <<documentText, cursorPosition, selection, op, arg, result, original,
                   quickPick, command>>

Settle(settled) ==
    \E m \in {settled} :
        /\ command' = m.command
        /\ window' = m.window
        /\ documentText' = m.documentText
        /\ UNCHANGED <<cursorPosition, selection, op, arg, result, original, quickPick>>

\* showSourcePairQuickPick up to its picker, detected being what
\* findAllSurroundingPairs gave for the cursor (or threw).
showSourcePairQuickPick(m, detected) ==
    IF detected.thrown # Null
    THEN showErrorMessage(m, <<"Error: ">> \o detected.thrown)
    ELSE [m EXCEPT !.command.pc = "sourcePair",
                   !.command.detectedPairs = detected.value]

\* executeSandwichCommand after showOperationQuickPick gave an operation,
\* into the handler of the operation up to its first picker.
PickOperation ==
    /\ command.pc = "operation"
    /\ \E operation \in {"add", "delete", "replace"},
          detected \in {callFindAllSurroundingPairs(CurrentState)} :
        \E m \in {[Running EXCEPT !.command.operation = Some(operation)]} :
            Settle(IF window.activeTextEditor = NoEditor
                   THEN showErrorMessage(m, <<"No active editor">>)
                   ELSE IF operation = "add"
                   THEN [m EXCEPT !.command.pc = "rangeType"]
                   ELSE showSourcePairQuickPick(m, detected))

\* executeAddOperation after showRangeTypeQuickPick gave a range type: the
\* range is selected and highlighted, the destination picker shown.
PickRangeType ==
    /\ command.pc = "rangeType"
    /\ \E rangeType \in rangeTypeOptions(CurrentState, command.isHtml) :
        \E m \in {[Running EXCEPT !.command.rangeType = Some(rangeType)]},
           rangeResult \in {callSelectRange(rangeType, CurrentState)} :
            Settle(IF rangeResult.thrown # Null
                   THEN showErrorMessage(m, <<"Error: ">> \o rangeResult.thrown)
                   ELSE IF rangeResult.value = Null
                   THEN showErrorMessage(m,
                            <<"Failed to select range for type: ", rangeType>>)
                   ELSE callHighlight(
                            [m EXCEPT !.command.target = rangeResult.value,
                                      !.command.pc = "destinationPair"],
                            rangeResult.value[1].range))

\* executeDeleteOperation and executeReplaceOperation once the source pair is
\* known, surroundingPair being what findSurroundingPair gave for it (or
\* threw): replace highlights the pair and asks for the destination, delete
\* asks for confirmation when enterToConfirm is set and deletes at once
\* otherwise.
withSourcePair(m, sourcePair, surroundingPair) ==
    IF surroundingPair.thrown # Null
    THEN showErrorMessage([m EXCEPT !.command.sourcePair = Some(sourcePair)],
                          <<"Error: ">> \o surroundingPair.thrown)
    ELSE IF surroundingPair.value = Null
    THEN showErrorMessage([m EXCEPT !.command.sourcePair = Some(sourcePair)],
                          <<"No surrounding ">> \o sourcePair.name
                            \o <<" pair found at cursor position">>)
    ELSE IF m.command.operation = Some("replace")
    THEN callHighlight([m EXCEPT !.command.sourcePair = Some(sourcePair),
                                 !.command.target = surroundingPair.value,
                                 !.command.pc = "destinationPair"],
                       surroundingPair.value[1].range)
    ELSE IF m.command.enterToConfirm
    THEN callHighlight([m EXCEPT !.command.sourcePair = Some(sourcePair),
                                 !.command.target = surroundingPair.value,
                                 !.command.pc = "confirmation"],
                       surroundingPair.value[1].range)
    ELSE getAndApplyTextEdits([m EXCEPT !.command.sourcePair = Some(sourcePair),
                                        !.command.target = surroundingPair.value],
                              "delete", surroundingPair.value[1], sourcePair, Null)

\* showSourcePairQuickPick after its picker gave a pair: a tag leads to the
\* picker of the tag names detected, or to the input box when no pair was
\* detected.
PickSourcePair ==
    /\ command.pc = "sourcePair"
    /\ \E pair \in sourcePairOptions(command.detectedPairs, command.isHtml) :
        \E surroundingPair \in
                {IF pair.type = "tag" THEN Returned(Null)
                 ELSE callFindSurroundingPair(CurrentState, pair)} :
            Settle(IF pair.type = "tag"
                   THEN [Running EXCEPT !.command.pc =
                            IF Len(command.detectedPairs) = 0 THEN "sourceTagPrompt"
                            ELSE "sourceTagName"]
                   ELSE withSourcePair(Running, pair, surroundingPair))

\* handleTagNameSelection after its picker gave a name.
PickSourceTagName ==
    /\ command.pc = "sourceTagName"
    /\ \E tagName \in createTagNameOptions(command.detectedPairs) :
        \E surroundingPair \in {callFindSurroundingPair(CurrentState, TagPair(tagName))} :
            Settle(withSourcePair(Running, TagPair(tagName), surroundingPair))

\* promptForTagName for the source pair, a name entered: the empty name
\* gives nothing.
EnterSourceTagName ==
    /\ command.pc = "sourceTagPrompt"
    /\ \E tagName \in PromptedTagNames :
        \E surroundingPair \in {callFindSurroundingPair(CurrentState, TagPair(tagName))} :
            Settle(IF tagName = <<>> THEN return(withNothing(Running))
                   ELSE withSourcePair(Running, TagPair(tagName), surroundingPair))

\* A faulty variant of withDestinationPair: a destination picker that gives
\* nothing counts as a choice of single quotes.
withDestinationPairDefault(m, destinationPair) ==
    getAndApplyTextEdits(callClearHighlights(m), m.command.operation[1],
                         m.command.target[1],
                         IF destinationPair = Null THEN BasicPair("'")
                         ELSE destinationPair[1],
                         m.command.sourcePair)

\* executeAddOperation and executeReplaceOperation once the destination pair
\* is known or given up: the highlight is cleared, the edits applied.
withDestinationPair(m, destinationPair) ==
    IF destinationPair = Null
    THEN return(callClearHighlights(m))
    ELSE getAndApplyTextEdits(callClearHighlights(m), m.command.operation[1],
                              m.command.target[1], destinationPair[1],
                              m.command.sourcePair)

\* showDestinationPairQuickPick after its picker gave a pair: the tag option
\* leads to the input box.
PickDestinationPair ==
    /\ command.pc = "destinationPair"
    /\ \E pair \in defaultPairOptions(command.isHtml) :
        Settle(IF pair.type = "tag"
               THEN [Running EXCEPT !.command.pc = "destinationTagPrompt"]
               ELSE withDestinationPair(Running, Some(pair)))

\* promptForTagName for the destination pair, a name entered.
EnterDestinationTagName ==
    /\ command.pc = "destinationTagPrompt"
    /\ \E tagName \in PromptedTagNames :
        Settle(IF tagName = <<>> THEN withDestinationPair(withNothing(Running), Null)
               ELSE withDestinationPair(Running, Some(TagPair(tagName))))

\* executeDeleteOperation after the confirmation picker gave its answer (or
\* none).
withConfirmation(m, confirmation) ==
    IF confirmation # Some("Yes")
    THEN return(callClearHighlights(m))
    ELSE getAndApplyTextEdits(callClearHighlights(m), "delete",
                              m.command.target[1], m.command.sourcePair[1], Null)

ConfirmDelete ==
    /\ command.pc = "confirmation"
    /\ \E confirmation \in {"Yes", "No"} :
        Settle(withConfirmation(IF confirmation = "Yes" THEN Running
                                ELSE withNothing(Running),
                                Some(confirmation)))

\* The picker awaited is dismissed (Escape, or the host hiding it when it
\* loses focus): its promise gives undefined and the handler runs on.
HidePicker ==
    /\ command.pc \notin {"idle", "done"}
    /\ Settle(CASE command.pc \in {"destinationPair", "destinationTagPrompt"} ->
                    withDestinationPair(withNothing(Running), Null)
                [] command.pc = "confirmation" ->
                    withConfirmation(withNothing(Running), Null)
                [] OTHER -> return(withNothing(Running)))

Next ==
    \/ ConvertPosition
    \/ FindSurroundingPair
    \/ FindAllSurroundingPairs
    \/ SelectRange
    \/ AddPair
    \/ DeletePair
    \/ GetTextEdits
    \/ CallDetector
    \/ CreateCommonQuickPick
    \/ TypeKey
    \/ MoveActive
    \/ Accept
    \/ Dismiss
    \/ ConvertOffset
    \/ GetTextFromRange
    \/ ExecuteSandwichCommand
    \/ ChangeActiveTextEditor
    \/ PickOperation
    \/ PickRangeType
    \/ PickSourcePair
    \/ PickSourceTagName
    \/ EnterSourceTagName
    \/ PickDestinationPair
    \/ EnterDestinationTagName
    \/ ConfirmDelete
    \/ HidePicker

Spec == Init /\ [][Next]_vars

\* The sessions that make one kind of call only.
SpecPosition == Init /\ [][ConvertPosition]_vars
SpecFind == Init /\ [][FindSurroundingPair]_vars
SpecFindAll == Init /\ [][FindAllSurroundingPairs]_vars
NextDetect == FindSurroundingPair \/ SelectRange
SpecDetect == Init /\ [][NextDetect]_vars
NextEdit == AddPair \/ DeletePair
SpecEdit == Init /\ [][NextEdit]_vars
NextPick == CreateCommonQuickPick \/ TypeKey \/ MoveActive \/ Accept \/ Dismiss
SpecPick == Init /\ [][NextPick]_vars

NextText ==
    GetTextFromRange \/ FindSurroundingPair \/ FindAllSurroundingPairs \/ SelectRange
SpecText == Init /\ [][NextText]_vars

SpecOffset == Init /\ [][ConvertOffset]_vars

\* The sessions that run the sandwich command; with no picker left open for
\* ever (the host hides a picker that loses focus).
NextCommand ==
    \/ ExecuteSandwichCommand
    \/ ChangeActiveTextEditor
    \/ PickOperation
    \/ PickRangeType
    \/ PickSourcePair
    \/ PickSourceTagName
    \/ EnterSourceTagName
    \/ PickDestinationPair
    \/ EnterDestinationTagName
    \/ ConfirmDelete
    \/ HidePicker
SpecCommand == Init /\ [][NextCommand]_vars
SpecCommandFair == SpecCommand /\ WF_vars(HidePicker)

SpecCall == Init /\ [][CallDetector]_vars

NextSelect == SelectRange
SpecSelect == Init /\ [][NextSelect]_vars

NextGenerate == FindSurroundingPair \/ SelectRange \/ GetTextEdits
SpecGenerate == Init /\ [][NextGenerate]_vars

(***************************************************************************)
(* Properties.                                                              *)
(***************************************************************************)

\* C2: round trip: for every valid position p of a buffer,
\* offsetToPosition(state, positionToOffset(state, p)) equals p.
C2_RoundTrip == op = "offsetToPosition" => result = Some(cursorPosition)

\* A position in the middle of a later line has been converted there and back.
C2_Witness ==
    /\ op = "offsetToPosition"
    /\ cursorPosition.line > 0
    /\ cursorPosition.character > 0
    /\ result = Some(cursorPosition)

\* The offset of the cursor, and of a position, in the current document.
CursorOffset == positionToOffset(CurrentState, cursorPosition)
OffsetOf(p) == positionToOffset(CurrentState, p)

\* The offsets at which character ch occurs in the current document.
OccurrencesOf(ch) == {i \in 0..(Len(documentText) - 1) : documentText[i + 1] = ch}

\* The result of the last call is the pair whose opening delimiter starts at
\* offset os and whose closing delimiter starts at offset cs.
ResultIsPairAt(os, cs) ==
    /\ result # Null
    /\ OffsetOf(result[1].startRange.start) = os
    /\ OffsetOf(result[1].endRange.start) = cs

IsBracketCall ==
    /\ op = "findSurroundingPair"
    /\ arg.type = "basic"
    /\ isBrackets(arg.name[1])

\* The balanced pairs of the bracket kind asked for whose span strictly
\* contains the cursor.
BalancedAroundCursor ==
    LET delimiter == getPairDelimiter(arg)
        balanced == findBalancedPairs(documentText, delimiter.opening, delimiter.closing)
    IN  {balanced[k] : k \in {j \in 1..Len(balanced) :
            balanced[j].start < CursorOffset /\ CursorOffset < balanced[j].end}}

\* C3: bracket innermost-wins: when balanced pairs of the bracket kind
\* strictly contain the cursor, findSurroundingPair returns the one of them
\* with the smallest span, never an outer one.
C3_BracketInnermost ==
    (IsBracketCall /\ BalancedAroundCursor # {}) =>
        \E b \in BalancedAroundCursor :
            /\ ResultIsPairAt(b.start, b.end)
            /\ \A q \in BalancedAroundCursor \ {b} : b.end - b.start < q.end - q.start

\* The cursor is inside the inner of two nested pairs and the inner one is
\* what was returned.
C3_Witness ==
    /\ IsBracketCall
    /\ Cardinality(BalancedAroundCursor) >= 2
    /\ \E b \in BalancedAroundCursor :
        /\ ResultIsPairAt(b.start, b.end)
        /\ \A q \in BalancedAroundCursor \ {b} : q.start < b.start /\ b.end < q.end

IsQuoteCall ==
    /\ op = "findSurroundingPair"
    /\ arg.type = "basic"
    /\ ~isBrackets(arg.name[1])

\* The candidate quote pairs by strict alternation: an occurrence with an
\* even number of occurrences before it, paired with the next occurrence.
QuoteCandidatesOf(ch) ==
    LET occ == OccurrencesOf(ch)
    IN  {<<a, b>> \in occ \X occ :
            /\ a < b
            /\ Cardinality({i \in occ : i < a}) % 2 = 0
            /\ ~\E i \in occ : a < i /\ i < b}

QuoteCandidates == QuoteCandidatesOf(arg.name[1])

\* The candidates that contain the cursor (opening index < cursor <= end of
\* the closing quote), and those whose closing quote is at or before it.
QuoteContaining == {c \in QuoteCandidates : c[1] < CursorOffset /\ CursorOffset <= c[2] + 1}
QuotePreceding == {c \in QuoteCandidates : c[2] <= CursorOffset}

QuotesAfterCursor == {i \in OccurrencesOf(arg.name[1]) : i >= CursorOffset}
QuotesBeforeCursor == {i \in OccurrencesOf(arg.name[1]) : i < CursorOffset}

\* C5: quote detection outside quotes, as the unit test states it: with the
\* cursor outside every quote pair but between two quote occurrences,
\* findSurroundingPair returns a non-null result whose range encloses the
\* cursor, starts just after a quote before the cursor and ends at the first
\* quote after the cursor; in the test's document, with the cursor at column
\* 25, the range is columns 18..51 and the text "fuga'; hello, world;
\* console.log(".
C5_QuoteOutside ==
    /\ (IsQuoteCall /\ QuoteContaining = {}
            /\ QuotesBeforeCursor # {} /\ QuotesAfterCursor # {}) =>
        /\ result # Null
        /\ OffsetOf(result[1].range.start) <= CursorOffset
        /\ (OffsetOf(result[1].range.start) - 1) \in QuotesBeforeCursor
        /\ OffsetOf(result[1].range.end) \in QuotesAfterCursor
        /\ \A i \in QuotesAfterCursor : OffsetOf(result[1].range.end) <= i
    /\ (IsQuoteCall /\ documentText = QuoteOutsideDoc
            /\ cursorPosition = Position(0, 25)) =>
        /\ result # Null
        /\ result[1].range = Range(Position(0, 18), Position(0, 51))
        /\ result[1].text = Substring(QuoteOutsideDoc, 18, 51)

IsTagCall == op = "findSurroundingPair" /\ arg.type = "tag"

\* The opening and the closing tags of the name asked for, attributes allowed.
OpeningTagsNamed(n) == {m \in openingTagMatches(documentText) : m.name = n}
ClosingTagsNamed(n) == {m \in closingTagMatches(documentText) : m.name = n}

\* The result of the last call is the tag pair whose opening tag spans
\* os..oe and whose closing tag starts at cs.
ResultIsTagAt(os, oe, cs) ==
    /\ ResultIsPairAt(os, cs)
    /\ OffsetOf(result[1].range.start) = oe
    /\ OffsetOf(result[1].range.end) = cs

\* The innermost elements of name n nested in another element of that name:
\* an opening tag, the closing tag after it with no tag of the name between
\* them, and an earlier opening tag of the name.
InnermostNested(n) ==
    {<<o, c>> \in OpeningTagsNamed(n) \X ClosingTagsNamed(n) :
        /\ o.end <= c.index
        /\ ~\E m \in OpeningTagsNamed(n) \cup ClosingTagsNamed(n) :
                o.end <= m.index /\ m.index < c.index
        /\ \E outer \in OpeningTagsNamed(n) : outer.end <= o.index}

\* C6: tag innermost-wins: for same-named nested tags with the cursor inside
\* the innermost element, findSurroundingPair returns the innermost pair
\* (its range is that element's content); with the cursor on Y in
\* <div><div>X<div>Y</div>Z</div></div> the returned text is "Y".
C6_TagInnermost ==
    /\ IsTagCall =>
        \A e \in InnermostNested(arg.name) :
            (e[1].end < CursorOffset /\ CursorOffset < e[2].index) =>
                ResultIsTagAt(e[1].index, e[1].end, e[2].index)
    /\ (IsTagCall /\ documentText = NestedDivDoc /\ arg = TagPair(<<"d", "i", "v">>)
            /\ cursorPosition = Position(0, 16)) =>
        (result # Null /\ result[1].text = <<"Y">>)

\* The opening tags of the name that lie before the cursor.
OpeningTagsBeforeCursor(n) == {m \in OpeningTagsNamed(n) : m.end <= CursorOffset}

\* C7: tag lookup rule: the opening tag is the occurrence of the name
\* (attributes allowed) nearest before the cursor, the closing tag the
\* nearest </name> after that opening tag's end, and a pair is returned only
\* if the cursor is strictly between the opening tag's end and the closing
\* tag's start.
C7_TagLookupRule ==
    IsTagCall =>
        IF OpeningTagsBeforeCursor(arg.name) = {} THEN result = Null
        ELSE LET o == CHOOSE m \in OpeningTagsBeforeCursor(arg.name) :
                        \A k \in OpeningTagsBeforeCursor(arg.name) : k.index <= m.index
                 closingStart == IndexOf(documentText, <<"<", "/">> \o arg.name \o <<">">>, o.end)
             IN  IF closingStart # -1 /\ o.end < CursorOffset /\ CursorOffset < closingStart
                 THEN ResultIsTagAt(o.index, o.end, closingStart)
                 ELSE result = Null

IsFindAllCall == op = "findAllSurroundingPairs"

\* The elements of name n by the matching of brackets: a closing tag closes
\* the latest opening tag of the name that is still open; a self-closing tag
\* opens nothing.
RECURSIVE ElementsLoop(_, _, _, _)
ElementsLoop(n, i, stack, acc) ==
    IF i >= Len(documentText) THEN acc
    ELSE LET o == openingTagAt(documentText, i)
             c == closingTagAt(documentText, i)
         IN  IF o # Null /\ o[1].name = n /\ documentText[o[1].end - 1] # "/"
             THEN ElementsLoop(n, o[1].end, <<o[1]>> \o stack, acc)
             ELSE IF c # Null /\ c[1].name = n /\ stack # <<>>
             THEN ElementsLoop(n, c[1].end, Tail(stack), acc \cup {<<Head(stack), c[1]>>})
             ELSE ElementsLoop(n, i + 1, stack, acc)

Elements(n) == ElementsLoop(n, 0, <<>>, {})

\* The elements of name n whose inner span strictly contains the cursor.
ElementsAroundCursor(n) ==
    {e \in Elements(n) : e[1].end < CursorOffset /\ CursorOffset < e[2].index}

TagNamesOfDocument == {m.name : m \in openingTagMatches(documentText)}

\* The result of findAllSurroundingPairs has an entry of that pair type
\* whose range spans the offsets from..to.
HasEntry(pairType, from, to) ==
    \E k \in 1..Len(result) :
        /\ result[k].pairType = pairType
        /\ OffsetOf(result[k].range.start) = from
        /\ OffsetOf(result[k].range.end) = to

\* The balanced pairs of bracket ch whose span strictly contains the cursor.
BalancedAroundCursorOf(ch) ==
    LET balanced == findBalancedPairs(documentText, PAIR_DELIMITERS(ch).opening,
                                      PAIR_DELIMITERS(ch).closing)
    IN  {balanced[k] : k \in {j \in 1..Len(balanced) :
            balanced[j].start < CursorOffset /\ CursorOffset < balanced[j].end}}

\* Every quote type and every bracket type that encloses the cursor has an
\* entry.
BasicEntriesPresent ==
    /\ \A k \in 1..Len(QUOTES_DELIMITERS) :
        \A c \in QuoteCandidatesOf(QUOTES_DELIMITERS[k]) :
            (c[1] < CursorOffset /\ CursorOffset <= c[2]) =>
                HasEntry(BasicPair(QUOTES_DELIMITERS[k]), c[1] + 1, c[2])
    /\ \A k \in 1..Len(BRACKETS_DELIMITERS) :
        BalancedAroundCursorOf(BRACKETS_DELIMITERS[k]) # {} =>
            \E b \in BalancedAroundCursorOf(BRACKETS_DELIMITERS[k]) :
                HasEntry(BasicPair(BRACKETS_DELIMITERS[k]), b.start + 1, b.end)

\* The content of element e holds no text that reads as an opening tag whose
\* name is, or begins with, n.
NoOpeningInside(n, e) ==
    namedOpeningTagMatches(Substring(documentText, e[1].end, e[2].index), n) = {}

EntriesOfResult == {<<result[k].pairType, result[k].text>> : k \in 1..Len(result)}

\* C9: same-named nested tags in findAllSurroundingPairs: when several
\* elements of one name are nested around the cursor, every reported pair of
\* that name is the innermost one, so the enclosing ones are not reported;
\* for <div><div><p>Hello world</p></div></div> with the cursor in the text
\* the result has exactly 3 entries: the p tag, the inner div and the angle
\* bracket.
C9_SameNamedNested ==
    /\ IsFindAllCall =>
        \A n \in TagNamesOfDocument :
            Cardinality(ElementsAroundCursor(n)) >= 2 =>
                \A k \in 1..Len(result) :
                    result[k].pairType = TagPair(n) =>
                        \E e \in ElementsAroundCursor(n) :
                            /\ OffsetOf(result[k].range.start) = e[1].end
                            /\ OffsetOf(result[k].range.end) = e[2].index
                            /\ \A f \in ElementsAroundCursor(n) : f[1].index <= e[1].index
    /\ (IsFindAllCall /\ documentText = NestedTagsDoc /\ cursorPosition = Position(0, 15)) =>
        /\ Len(result) = 3
        /\ {e \in EntriesOfResult : e[1].type = "tag"} =
                {<<TagPair(<<"p">>), Substring(NestedTagsDoc, 13, 24)>>,
                 <<TagPair(<<"d", "i", "v">>), Substring(NestedTagsDoc, 10, 28)>>}
        /\ {e[1] : e \in {f \in EntriesOfResult : f[1].type = "basic"}} = {BasicPair("<")}

IsSelectCall(rangeType) == op = "selectRange" /\ arg = RangeTypeArg(rangeType)

\* The delimiter spans lie outside the range: startRange.end <= range.start,
\* range.end <= endRange.start and range.start <= range.end.
DelimitersOutsideRange(r) ==
    /\ PosLeq(r.startRange.end, r.range.start)
    /\ PosLeq(r.range.end, r.endRange.start)
    /\ PosLeq(r.range.start, r.range.end)

\* C10 as stated: DetectedRange invariant: for every non-null result of
\* findSurroundingPair and of selectRange in TagInner, TagOuter and
\* SelfClosingTag mode, startRange.end <= range.start, range.end <=
\* endRange.start and range.start <= range.end.
C10_DetectedRangeInvariant ==
    ((op = "findSurroundingPair" \/ IsSelectCall("it") \/ IsSelectCall("at")
            \/ IsSelectCall("st")) /\ result # Null) =>
        DelimitersOutsideRange(result[1])

\* C10, amended: the invariant holds for every non-null result of
\* findSurroundingPair and of selectRange in TagInner mode; in TagOuter and
\* SelfClosingTag mode the range covers the delimiters: the two spans lie
\* inside it, startRange.start = range.start and endRange.end = range.end
\* (in SelfClosingTag mode both spans are the range itself).
C10_DetectedRangeByMode ==
    /\ ((op = "findSurroundingPair" \/ IsSelectCall("it")) /\ result # Null) =>
        DelimitersOutsideRange(result[1])
    /\ (IsSelectCall("at") /\ result # Null) =>
        /\ result[1].startRange.start = result[1].range.start
        /\ result[1].endRange.end = result[1].range.end
        /\ PosLt(result[1].range.start, result[1].startRange.end)
        /\ PosLeq(result[1].startRange.end, result[1].endRange.start)
        /\ PosLt(result[1].endRange.start, result[1].range.end)
    /\ (IsSelectCall("st") /\ result # Null) =>
        /\ result[1].startRange = result[1].range
        /\ result[1].endRange = result[1].range
        /\ PosLt(result[1].range.start, result[1].range.end)

\* A tag pair and a TagInner selection with non-empty content, delimiters
\* outside the range.
C10_Witness ==
    /\ (IsTagCall \/ IsSelectCall("it"))
    /\ result # Null
    /\ PosLt(result[1].startRange.start, result[1].startRange.end)
    /\ PosLt(result[1].range.start, result[1].range.end)
    /\ PosLt(result[1].endRange.start, result[1].endRange.end)
    /\ DelimitersOutsideRange(result[1])

\* The add then delete flow has run to its end, with or without a pair found.
IsDeleteFlow == op \in {"delete", "deleteNotFound"}

\* The document as it was between the add and the delete, and the offset of
\* the delete's cursor in it.
AddedText ==
    LET parts == getPairParts(arg)
        from == WrappedStart - Len(parts.opening)
    IN  Substring(original, 0, from) \o parts.opening \o result[1].text
        \o parts.closing \o SubstringFrom(original, from + Len(result[1].text))
CursorInAdded ==
    positionToOffset(EditorState(AddedText, cursorPosition, Range(cursorPosition, cursorPosition)),
                     cursorPosition)

\* C1 as stated: Add/Delete inverse: for any document, any range R and any
\* pair P, applying the edits of getTextEdits(add, R, P), calling
\* findSurroundingPair with P at a cursor inside the wrapped content and
\* applying getTextEdits(delete, thatResult, P) yields the original document.
C1_AddDeleteInverse ==
    IsDeleteFlow => (op = "delete" /\ documentText = original)

\* No delimiter of the pair occurs in the text: for a tag, neither <name nor
\* </name>.
DelimiterFree(text, pair) ==
    IF pair.type = "basic"
    THEN /\ IndexOf(text, getPairParts(pair).opening, 0) = -1
         /\ IndexOf(text, getPairParts(pair).closing, 0) = -1
    ELSE /\ IndexOf(text, <<"<">> \o pair.name, 0) = -1
         /\ IndexOf(text, getPairParts(pair).closing, 0) = -1

\* The cursor is at a point of the wrapped content where the pair finder of
\* the family looks outwards: any point for a quote, any point but the end
\* for a bracket, any point but the two ends for a tag.
CursorWellInside ==
    IF arg.type = "tag"
    THEN WrappedStart < CursorInAdded /\ CursorInAdded < WrappedEnd
    ELSE IF isBrackets(arg.name[1])
    THEN WrappedStart <= CursorInAdded /\ CursorInAdded < WrappedEnd
    ELSE WrappedStart <= CursorInAdded /\ CursorInAdded <= WrappedEnd

\* C1, amended: Add/Delete inverse when the original document holds no
\* delimiter of P and the cursor is well inside the wrapped content: the
\* pair is found and the delete restores the original document.
C1_InverseWhenDelimiterFree ==
    (IsDeleteFlow /\ DelimiterFree(original, arg) /\ CursorWellInside) =>
        (op = "delete" /\ documentText = original)

\* A tag was added around two characters and deleted again from a cursor
\* between them, and the document is the original one.
C1_Witness ==
    /\ op = "delete"
    /\ arg.type = "tag"
    /\ Len(result[1].text) >= 2
    /\ DelimiterFree(original, arg)
    /\ CursorWellInside
    /\ documentText = original

\* getTextEdits has been called; the operation, and what it returned.
IsEditCall == op = "getTextEdits"
IsEditOf(operation) == IsEditCall /\ arg.name = <<operation>>
EditsReturned == result[1].edits
ErrorThrown == result[1].error

\* The call is one that returns edits: add, delete, or replace with a source.
IsEditReturned ==
    \/ IsEditOf("add")
    \/ IsEditOf("delete")
    \/ (IsEditOf("replace") /\ arg.sourcePair # Null)

\* The range the edits were asked for came from selectRange in that mode.
RangeFromMode(rangeType) ==
    arg.from = "selectRange" /\ arg.of = RangeTypeArg(rangeType)

\* Exactly two edits, the first one ending before the second one starts.
TwoEditsApart ==
    /\ Len(EditsReturned) = 2
    /\ PosLeq(EditsReturned[1].range.end, EditsReturned[2].range.start)

\* C11 as stated: edit shape: for every operation and every range that
\* selectRange (any of the five modes) or findSurroundingPair returns,
\* getTextEdits returns exactly two edits and, for delete and replace, the two
\* edit ranges do not overlap.
C11_EditShape ==
    IsEditReturned =>
        /\ Len(EditsReturned) = 2
        /\ (~IsEditOf("add") => TwoEditsApart)

\* C11, amended: exactly two edits for every operation and range; for delete
\* and replace the two edit ranges do not overlap when the range comes from
\* findSurroundingPair or from selectRange in a mode other than
\* SelfClosingTag; for a SelfClosingTag range both edits have the range of
\* the whole tag.
C11_EditShapeByMode ==
    IsEditReturned =>
        /\ Len(EditsReturned) = 2
        /\ (~IsEditOf("add") =>
                IF RangeFromMode("st")
                THEN /\ EditsReturned[1].range = arg.ranges.range
                     /\ EditsReturned[2].range = arg.ranges.range
                     /\ PosLt(arg.ranges.range.start, arg.ranges.range.end)
                ELSE TwoEditsApart)

\* A replace on a tag pair that was found: two edits over two non-empty
\* ranges, the content between them.
C11_Witness ==
    /\ IsEditOf("replace")
    /\ arg.sourcePair # Null
    /\ arg.from = "findSurroundingPair"
    /\ arg.of.type = "tag"
    /\ TwoEditsApart
    /\ PosLt(EditsReturned[1].range.start, EditsReturned[1].range.end)
    /\ PosLt(EditsReturned[1].range.end, EditsReturned[2].range.start)
    /\ PosLt(EditsReturned[2].range.start, EditsReturned[2].range.end)

\* The opening and closing text of a pair as the pair table gives them: a
\* quote twice, a bracket and its partner, a tag name in <name> and </name>.
OpeningTextOf(pair) ==
    IF pair.type = "tag" THEN <<"<">> \o pair.name \o <<">">> ELSE pair.name
ClosingTextOf(pair) ==
    IF pair.type = "tag" THEN <<"<", "/">> \o pair.name \o <<">">>
    ELSE CASE pair.name = <<"(">> -> <<")">>
           [] pair.name = <<"{">> -> <<"}">>
           [] pair.name = <<"[">> -> <<"]">>
           [] pair.name = <<"<">> -> <<">">>
           [] OTHER -> pair.name

\* A zero-width insertion of text at position p.
InsertionAt(p, text) == [range |-> [start |-> p, end |-> p], newText |-> text]

\* C12: add: getTextEdits(add, d, pair) returns two zero-width insertions,
\* the pair's opening text at d.range.start and its closing text at
\* d.range.end, whatever d.startRange and d.endRange are.
C12_Add ==
    IsEditOf("add") =>
        /\ ErrorThrown = <<>>
        /\ EditsReturned = <<InsertionAt(arg.ranges.range.start, OpeningTextOf(arg.pair)),
                             InsertionAt(arg.ranges.range.end, ClosingTextOf(arg.pair))>>

\* A square bracket was added around a range whose delimiter spans are not
\* empty: the insertions are at the ends of the range, not of the spans.
C12_Witness ==
    /\ IsEditOf("add")
    /\ arg.pair = BasicPair("[")
    /\ PosLt(arg.ranges.startRange.start, arg.ranges.range.start)
    /\ PosLt(arg.ranges.range.start, arg.ranges.range.end)
    /\ PosLt(arg.ranges.range.end, arg.ranges.endRange.end)
    /\ EditsReturned = <<InsertionAt(arg.ranges.range.start, <<"[">>),
                         InsertionAt(arg.ranges.range.end, <<"]">>)>>

\* The edits were computed for a range findSurroundingPair returned.
RangeFromFinder == arg.from = "findSurroundingPair"

\* The text of the document between two positions.
TextBetween(r) == getTextFromRange(CurrentState, r)

\* text is one whole opening tag of that name: "<name", no ">" before its
\* last character, which is ">".
IsOpeningTagText(text, name) ==
    /\ Len(text) >= Len(name) + 2
    /\ SubSeq(text, 1, Len(name) + 1) = <<"<">> \o name
    /\ text[Len(text)] = ">"
    /\ \A i \in 1..(Len(text) - 1) : text[i] # ">"

\* The spans of d are the delimiters of the pair that was looked for, next to
\* d.range: one character each for a quote or a bracket, the whole opening
\* and closing tag for a tag.
SpansAreDelimiters(d, pair) ==
    /\ d.startRange.end = d.range.start
    /\ d.endRange.start = d.range.end
    /\ IF pair.type = "tag"
       THEN /\ IsOpeningTagText(TextBetween(d.startRange), pair.name)
            /\ TextBetween(d.endRange) = ClosingTextOf(pair)
       ELSE /\ TextBetween(d.startRange) = pair.name
            /\ TextBetween(d.endRange) = ClosingTextOf(pair)

\* The document without the two spans of d.
WithoutSpans(d) ==
    Substring(documentText, 0, positionToOffset(CurrentState, d.startRange.start))
    \o TextBetween(d.range)
    \o SubstringFrom(documentText, positionToOffset(CurrentState, d.endRange.end))

FamilyOf(pair) ==
    IF pair.type = "tag" THEN "tag"
    ELSE IF pair.name[1] \in {"(", "{", "[", "<"} THEN "bracket" ELSE "quote"

\* The replace calls with a source pair cover every combination of families.
AllFamiliesReplaced ==
    {<<FamilyOf(c.sourcePair[1]), FamilyOf(c.pair)>> :
        c \in {e \in EditCalls : e.operation = "replace" /\ e.sourcePair # Null}}
    = {"quote", "bracket", "tag"} \X {"quote", "bracket", "tag"}

C15_ReplaceNeedsSource ==
    (IsEditOf("replace") /\ arg.sourcePair = Null) =>
        /\ ErrorThrown = <<"Source pair is required for replace operation">>
        /\ EditsReturned = <<>>

\* A replace by a tag was asked without a source, for a range the line
\* selector returned.
C15_Witness ==
    /\ IsEditOf("replace")
    /\ arg.sourcePair = Null
    /\ arg.pair = TagPair(<<"d">>)
    /\ RangeFromMode("_")
    /\ ErrorThrown = <<"Source pair is required for replace operation">>

\* The message holds the words at its start or within one of its parts.
RECURSIVE Contains(_, _)
Contains(message, words) ==
    message # <<>> /\ (Head(message) = words \/ Contains(Tail(message), words))

\* C16: unknown operation: getTextEdits with an operation other than add,
\* delete and replace throws an error whose message contains "Unknown
\* operation", with or without a source pair.
C16_UnknownOperation ==
    (IsEditCall /\ arg.name \notin {<<"add">>, <<"delete">>, <<"replace">>}) =>
        /\ Contains(ErrorThrown, "Unknown operation: ")
        /\ EditsReturned = <<>>

\* The operation "swap" was asked with a source pair.
C16_Witness ==
    /\ IsEditOf("swap")
    /\ arg.sourcePair # Null
    /\ ErrorThrown = <<"Unknown operation: ", "swap">>

\* The text of the line the cursor is on.
CursorLineText == getLineText(CurrentState, cursorPosition.line)

\* A text without its leading whitespace.
RECURSIVE StripLeading(_)
StripLeading(text) ==
    IF text # <<>> /\ Head(text) \in {" ", "\t", "\r", "\n"} THEN StripLeading(Tail(text))
    ELSE text

\* The column of the first non-whitespace character of a line, 0 when it has
\* none.
FirstColumn(text) ==
    IF StripLeading(text) = <<>> THEN 0 ELSE Len(text) - Len(StripLeading(text))

\* The range of the result lies on the cursor's line, from the first
\* non-whitespace column to the length of the line.
LineRangeReturned ==
    /\ result # Null
    /\ result[1].range.start = Position(cursorPosition.line, FirstColumn(CursorLineText))
    /\ result[1].range.end = Position(cursorPosition.line, Len(CursorLineText))

\* C17 as stated: selectRange("_") returns a non-null result on the cursor's
\* line, from the first non-whitespace column (0 when there is none) to the
\* line length, whatever the cursor's column, and its text is the line
\* without the leading whitespace.
C17_EntireLine ==
    IsSelectCall("_") =>
        /\ LineRangeReturned
        /\ result[1].text = StripLeading(CursorLineText)

\* C17, amended: the same range, and the text is the text of that range: the
\* line without the leading whitespace when it has a non-whitespace
\* character, the whole line when it has none.
C17_EntireLineText ==
    IsSelectCall("_") =>
        /\ LineRangeReturned
        /\ result[1].text = getTextFromRange(CurrentState, result[1].range)
        /\ result[1].text = IF StripLeading(CursorLineText) = <<>> THEN CursorLineText
                            ELSE StripLeading(CursorLineText)

\* The line of the test was selected with the cursor in its middle: the
\* range starts at column 4 and the text is "line2 with cursor".
C17_Witness ==
    /\ IsSelectCall("_")
    /\ documentText = IndentedLineDoc
    /\ cursorPosition = Position(1, 9)
    /\ result # Null
    /\ result[1].range = Range(Position(1, 4), Position(1, 21))
    /\ result[1].text = SubSeq(IndentedLineDoc, 11, 27)
    /\ Len(result[1].text) = 17

\* The characters of the document from one position to another, line breaks
\* included.
LiteralText(r) ==
    Substring(documentText, positionToOffset(CurrentState, r.start),
              positionToOffset(CurrentState, r.end))

\* C18: selectRange("s") returns null when the selection starts and ends at
\* the same line and character, and otherwise the selection range unchanged
\* with the literal text of that range, on one line or over several.
C18_CurrentSelection ==
    IsSelectCall("s") =>
        IF selection.start = selection.end
        THEN result = Null
        ELSE /\ result # Null
             /\ result[1].range = selection
             /\ result[1].text = LiteralText(selection)

\* A selection from the first line of the test's document into its second
\* line was returned with its line break.
C18_Witness ==
    /\ IsSelectCall("s")
    /\ documentText = SelectedDoc
    /\ selection = Range(Position(0, 3), Position(1, 5))
    /\ result # Null
    /\ result[1].range = selection
    /\ result[1].text = <<"e", "1", "\n", "l", "i", "n", "e", "2">>

\* The closing tag and the opening tag the tag modes work from: the first
\* closing tag starting at or after the cursor, the last opening tag of its
\* name before it.
ClosingTagFound == findClosingTagAfterCursor(documentText, CursorOffset)
OpeningTagFound ==
    findMatchingOpeningTag(documentText, ClosingTagFound[1].name, ClosingTagFound[1].index)
TagsFound == ClosingTagFound # Null /\ OpeningTagFound # Null

\* The range between two offsets of the document.
RangeBetween(from, to) ==
    Range(offsetToPosition(CurrentState, from), offsetToPosition(CurrentState, to))

\* The extents of the matched opening and closing tag text.
OpeningExtent == RangeBetween(OpeningTagFound[1].index, OpeningTagFound[1].end)
ClosingExtent == RangeBetween(ClosingTagFound[1].index, ClosingTagFound[1].end)

SelfClosingOccurrences ==
    LET found == execAll(selfClosingTagMatches(documentText), 0)
    IN  {found[i] : i \in 1..Len(found)}

\* Those that contain the cursor, and those that start strictly after it.
SelfClosingAtCursor ==
    {m \in SelfClosingOccurrences : m.index <= CursorOffset /\ CursorOffset <= m.end}
SelfClosingAfterCursor == {m \in SelfClosingOccurrences : m.index > CursorOffset}

\* The result is that occurrence: its range is the extent of the match, its
\* text the text of the match.
ResultIsOccurrence(m) ==
    /\ result # Null
    /\ result[1].range = RangeBetween(m.index, m.end)
    /\ result[1].text = Substring(documentText, m.index, m.end)

\* C21: selectRange("st") returns the self-closing tag that contains the
\* cursor when there is one, otherwise the nearest one that starts strictly
\* after the cursor, and null when the document has no self-closing tag; the
\* range is the literal extent of the match.
C21_SelfClosingTag ==
    IsSelectCall("st") =>
        IF SelfClosingAtCursor # {}
        THEN \E m \in SelfClosingAtCursor : ResultIsOccurrence(m)
        ELSE IF SelfClosingAfterCursor # {}
        THEN \E m \in SelfClosingAfterCursor :
                /\ \A n \in SelfClosingAfterCursor : m.index <= n.index
                /\ ResultIsOccurrence(m)
        ELSE SelfClosingOccurrences = {} => result = Null

\* The img tag of the test was selected with the cursor inside it: columns
\* 5..28.
C21_Witness ==
    /\ IsSelectCall("st")
    /\ documentText = SelfClosingDoc
    /\ cursorPosition = Position(0, 15)
    /\ result # Null
    /\ result[1].range = Range(Position(0, 5), Position(0, 28))
    /\ result[1].text = SubSeq(SelfClosingDoc, 6, 28)

\* A detector was called: what its caller got.
IsCall == op = "call"
IsCallOf(name) == IsCall /\ arg.name = <<name>>
CallThrown == result[1].thrown
CallValue == result[1].value

\* C22: not found is never an exception: on every document (the empty one
\* included), at every cursor position and for every pair descriptor (every
\* quote, every bracket, a tag of any name), selectRange, findSurroundingPair
\* and findAllSurroundingPairs return normally.
C22_NeverThrows == IsCall => CallThrown = <<>>

\* A picker was created; the promise is settled; the value it yielded.
IsPicker == op = "quickPick"
PickerSettled == quickPick.resolved # Null
PickerYielded == quickPick.resolved[1]

\* The typed text names an item: it is the label of one, whatever the case.
TypedItem ==
    {k \in 1..Len(quickPick.items) :
        quickPick.value # <<>> /\ toLowerCase(quickPick.items[k].label) = toLowerCase(quickPick.value)}

IsConvertOffset == op = "convertOffset"

\* The offset lies beyond the first MAX_LINES lines: the lines of the
\* document hold Len(documentText) + 1 offsets (a line break each), every
\* line after them one.
CeilingExceeded ==
    arg.offset >= Len(documentText) + 1 + (MAX_LINES - Len(SplitLines(documentText)))

\* C24: offsetToPosition ends for every offset that is not negative, past
\* the end of the document too, within the ceiling of 100000 turns; when the
\* ceiling is exceeded it signals an error and returns no position.
C24_OffsetCeiling ==
    IsConvertOffset =>
        /\ result[1].iterations <= MAX_LINES
        /\ (CeilingExceeded <=> result[1].logged # <<>>)
        /\ CeilingExceeded => result[1].thrown # <<>>

\* The lines of the document, told apart by its line breaks.
LinesOfDocument == SplitLines(documentText)

\* The text of a range put together line by line: the part of the one line,
\* or the tail of the first line, the lines between and the head of the last
\* line, with a line break between every two.
RECURSIVE Joined(_)
Joined(parts) ==
    IF Len(parts) = 1 THEN parts[1] ELSE parts[1] \o <<"\n">> \o Joined(Tail(parts))

LineByLine(r) ==
    IF r.start.line = r.end.line
    THEN SubSeq(LinesOfDocument[r.start.line + 1], r.start.character + 1, r.end.character)
    ELSE Joined([k \in 1..(r.end.line - r.start.line + 1) |->
            IF k = 1
            THEN SubSeq(LinesOfDocument[r.start.line + 1], r.start.character + 1,
                        Len(LinesOfDocument[r.start.line + 1]))
            ELSE IF k = r.end.line - r.start.line + 1
            THEN SubSeq(LinesOfDocument[r.end.line + 1], 1, r.end.character)
            ELSE LinesOfDocument[r.start.line + k]])

\* The text of a result is the text of the document inside its range.
TextIsRange(r) == r.text = LiteralText(r.range)

\* C25: for every range inside the buffer with start <= end, getTextFromRange
\* returns the part of the line when the range is on one line, otherwise the
\* tail of the first line, the lines between and the head of the last line
\* joined by line breaks; this is the part of the document between the
\* offsets of start and end, so the text of every detection result is the
\* text of the document inside its range.
C25_TextInRange ==
    /\ op = "getTextFromRange" =>
          /\ result[1] = LineByLine(arg.range)
          /\ result[1] = LiteralText(arg.range)
    /\ (op \in {"findSurroundingPair", "selectRange"} /\ result # Null) =>
          TextIsRange(result[1])
    /\ op = "findAllSurroundingPairs" =>
          \A k \in 1..Len(result) : TextIsRange(result[k])

\* The inner content of the p element of the test, over four lines, was
\* returned with its line breaks.
C25_Witness ==
    /\ IsSelectCall("it")
    /\ documentText = MultiLineTestDoc
    /\ cursorPosition = Position(2, 5)
    /\ result # Null
    /\ result[1].range = Range(Position(1, 5), Position(4, 2))
    /\ result[1].text = SubSeq(MultiLineTestDoc, 12, 34)
    /\ Len(SplitLines(result[1].text)) = 4

\* C26: every bracket pair findSurroundingPair returns is a matched pair: its
\* opening delimiter is before the cursor, its closing delimiter after it,
\* and the stack matcher pairs the two; so are the results of the search
\* that runs when no balanced pair contains the cursor.
C26_GenuineBracketPair ==
    (IsBracketCall /\ result # Null) =>
        \E b \in BalancedAroundCursor : ResultIsPairAt(b.start, b.end)

\* The tag entries named n of the list findAllSurroundingPairs returned, and
\* the innermost of them: the one whose range is inside every other.
TagEntriesNamed(n) ==
    {result[k] : k \in {j \in 1..Len(result) : result[j].pairType = TagPair(n)}}
InnermostEntries(n) ==
    {e \in TagEntriesNamed(n) :
        \A f \in TagEntriesNamed(n) :
            PosLeq(f.range.start, e.range.start) /\ PosLeq(e.range.end, f.range.end)}

\* C27: the two tag finders agree: when findAllSurroundingPairs reports a tag
\* pair named n, findSurroundingPair(state, Tag(n)) returns a result whose
\* range is the range of the innermost reported pair named n.
C27_TagFindersAgree ==
    IsFindAllCall =>
        \A k \in 1..Len(result) :
            result[k].pairType.type = "tag" =>
                LET found == findSurroundingPair(CurrentState, result[k].pairType)
                IN  /\ found # Null
                    /\ \E e \in InnermostEntries(result[k].pairType.name) :
                            found[1].range = e.range

CommandEnded == command.pc = "done"
HighlightCalled == command.highlightCalls > 0
NoDecorationRemains == \A e \in Editors : window.decorations[e] = {}

\* Every execution that has called highlight calls clearHighlights as often
\* before it returns.
HighlightCallsCleared ==
    /\ HighlightCalled ~> (CommandEnded /\ command.clearCalls >= command.highlightCalls)
    /\ [](CommandEnded => command.clearCalls >= command.highlightCalls)

\* C29: in the add, replace and delete flows, every execution that calls
\* highlight goes on to call clearHighlights before the command returns,
\* whether the picker that follows is answered or dismissed, and no
\* decoration is left in any editor once the command has ended.
C29_HighlightAlwaysCleared ==
    /\ HighlightCallsCleared
    /\ [](CommandEnded => NoDecorationRemains)

NothingFound ==
    /\ command.errorMessage # <<>>
    /\ command.errorMessage[1] \in {"Failed to select range for type: ", "No surrounding "}

\* C30: when a step of the command is dismissed (the operation, range-type,
\* source-pair or destination-pair picker, a tag-name prompt, a delete
\* confirmation not answered "Yes"), or no range or surrounding pair is
\* found, the command ends with no edit computed and none applied: the
\* document is the one it started from.
C30_CancelChangesNothing ==
    (CommandEnded /\ (command.dismissed # <<>> \/ NothingFound)) =>
        /\ command.edits = Null
        /\ ~command.applied
        /\ documentText = original

\* A replace whose source pair was found and highlighted, given up at the
\* destination picker or at its tag-name prompt.
C30_Witness ==
    /\ CommandEnded
    /\ command.operation = Some("replace")
    /\ command.target # Null
    /\ command.dismissed \in {<<"destinationPair">>, <<"destinationTagPrompt">>}
    /\ HighlightCalled

====
